---- MODULE Spec2Model ----
(***************************************************************************)
(* The Genesis Pipeline: the Run Driver (main.py, run_genesis_pipeline),   *)
(* the execution graph (src/graph.py) run in supersteps, the agent units   *)
(* (src/nodes.py), the shared state (src/state.py) and the run record      *)
(* store (src/database.py).                                                *)
(***************************************************************************)
EXTENDS Integers, Sequences, FiniteSets, TLC

\* ------------------------------------------------------------------ bounds
\* How many times run_genesis_pipeline is called, one call after the other.
MaxRuns == 2

\* ------------------------------------------------------ python-level values
\* project_id: Optional[int] = None; None is written -1 so that identifiers
\* stay integers.
NoneId == -1

\* `if project_id:` -- Python truthiness of an Optional[int].
Truthy(pid) == pid # NoneId /\ pid # 0

\* A JSON object / Python dict: its items as a function from keys to values.
EmptyItems == [k \in {} |-> ""]
PyDict(items) == [type |-> "dict", items |-> items]
PyLen(d) == Cardinality(DOMAIN d.items)

\* A JSON array / Python list, its items keyed by their index.
PyList(items) == [type |-> "list", items |-> items]

\* d.get(key, default); on a list it raises AttributeError, which the caller
\* tests with d.type before it reads.
DictGet(d, key, default) ==
    IF key \in DOMAIN d.items THEN d.items[key] ELSE default

\* A slice that takes the whole text.
SliceWhole(text, k) == text

\* text[:k]
Slice(text, k) == SubSeq(text, 1, IF Len(text) < k THEN Len(text) ELSE k)

\* json.loads on the texts the backend is taken to return: the empty object,
\* one well-formed object per structured unit, an object whose one key is an
\* absolute path, an array, and text that is not JSON.
BrandJson == "{\"brand_name\": \"Acme\"}"
ArchJson == "{\"architecture_pattern\": \"monolith\"}"
CodeJson == "{\"README.md\": \"# Acme\"}"
AbsKeyJson == "{\"/tmp/evil.py\": \"import os\"}"
ListJson == "[\"x\"]"
NotJson == "Sure! Here is the JSON"
JsonLoads(content) ==
    CASE content = "{}" -> [ok |-> TRUE, value |-> PyDict(EmptyItems)]
      [] content = BrandJson ->
            [ok |-> TRUE, value |-> PyDict([k \in {"brand_name"} |-> "Acme"])]
      [] content = ArchJson ->
            [ok |-> TRUE,
             value |-> PyDict([k \in {"architecture_pattern"} |-> "monolith"])]
      [] content = CodeJson ->
            [ok |-> TRUE, value |-> PyDict([k \in {"README.md"} |-> "# Acme"])]
      [] content = AbsKeyJson ->
            [ok |-> TRUE,
             value |-> PyDict([k \in {"/tmp/evil.py"} |-> "import os"])]
      [] content = ListJson ->
            [ok |-> TRUE, value |-> PyList([k \in {"0"} |-> "x"])]
      [] OTHER -> [ok |-> FALSE, value |-> PyDict(EmptyItems)]

\* json.dumps(value, indent=2) of a value with at most one item of text.
JsonDumps(v) ==
    IF DOMAIN v.items = {}
    THEN (IF v.type = "list" THEN "[]" ELSE "{}")
    ELSE LET k == CHOOSE x \in DOMAIN v.items : TRUE
         IN  IF v.type = "list"
             THEN "[\n  \"" \o v.items[k] \o "\"\n]"
             ELSE "{\n  \"" \o k \o "\": \"" \o v.items[k] \o "\"\n}"

\* ------------------------------------------------------------ the graph
Nodes == {"product_owner", "creative_director", "solutions_architect",
          "lead_developer", "growth_hacker"}
END == "__end__"

\* An entry point set to one of the fan-out branches.
EntryPointBranch == "creative_director"

\* workflow.set_entry_point("product_owner")
EntryPoint == "product_owner"

\* A graph wired with lead_developer directly after product_owner.
EdgesShortcut ==
    {<<"product_owner", "creative_director">>,
     <<"product_owner", "solutions_architect">>,
     <<"product_owner", "lead_developer">>,
     <<"lead_developer", "growth_hacker">>,
     <<"growth_hacker", END>>}

\* A graph wired as a chain, solutions_architect after creative_director.
EdgesChain ==
    {<<"product_owner", "creative_director">>,
     <<"creative_director", "solutions_architect">>,
     <<"solutions_architect", "lead_developer">>,
     <<"lead_developer", "growth_hacker">>,
     <<"growth_hacker", END>>}

Edges ==
    {<<"product_owner", "creative_director">>,
     <<"product_owner", "solutions_architect">>,
     <<"creative_director", "lead_developer">>,
     <<"solutions_architect", "lead_developer">>,
     <<"lead_developer", "growth_hacker">>,
     <<"growth_hacker", END>>}

\* The compiled graph runs in supersteps (the library's execution model, as
\* the comment at the join says: "LangGraph automatically waits for both to
\* complete"): the nodes of a step run concurrently, their updates are
\* applied when all of them have returned, and the next step holds every
\* target of an edge leaving a node that ran.
Triggered(ran) == {m \in Nodes : \E n \in ran : <<n, m>> \in Edges}

\* Writes of one superstep are applied in the order of the node names.
NodeOrder == <<"creative_director", "growth_hacker", "lead_developer",
               "product_owner", "solutions_architect">>

\* The one output field each agent returns beside "messages".
OutputField(n) ==
    CASE n = "product_owner" -> "prd_content"
      [] n = "creative_director" -> "brand_assets"
      [] n = "solutions_architect" -> "architecture_map"
      [] n = "lead_developer" -> "source_code"
      [] n = "growth_hacker" -> "marketing_plan"

OutputFields == {OutputField(n) : n \in Nodes}

\* The units that json.loads their response.
JsonUnits == {"creative_director", "solutions_architect", "lead_developer"}

\* What the backend may answer to a unit: a text, or no answer (the call
\* raises: timeout, network, API error).
CallFailed == "<call failed>"
Contents(n) ==
    CASE n = "product_owner" -> {"# PRD"}
      [] n = "creative_director" -> {"{}", BrandJson, ListJson, NotJson}
      [] n = "solutions_architect" -> {"{}", ArchJson, NotJson}
      [] n = "lead_developer" -> {"{}", CodeJson, AbsKeyJson, NotJson}
      [] n = "growth_hacker" -> {"# Plan"}

\* ------------------------------------------------------ the shared state
\* create_initial_state(user_idea)
create_initial_state(idea) ==
    [user_idea |-> idea,
     prd_content |-> "",
     brand_assets |-> PyDict(EmptyItems),
     architecture_map |-> PyDict(EmptyItems),
     source_code |-> PyDict(EmptyItems),
     marketing_plan |-> "",
     messages |-> <<>>,
     execution_metadata |->
        [start_time |-> FALSE, end_time |-> FALSE, total_tokens |-> 0,
         agent_timings |-> PyDict(EmptyItems), project_id |-> NoneId]]

\* The state before any run has created one.
NoState == create_initial_state("")

\* add_messages: a message whose id is already in the list replaces that
\* entry in place, any other message is appended.  A message is named by the
\* unit whose response it is, so replacing leaves the entry as it was.
RECURSIVE add_messages(_, _)
add_messages(left, right) ==
    IF right = <<>> THEN left
    ELSE LET m == Head(right)
             have == \E i \in 1..Len(left) : left[i] = m
         IN  add_messages(IF have THEN left ELSE Append(left, m), Tail(right))

\* ------------------------------------------------------ the record store
ProjectStatus == {"pending", "running", "completed", "failed"}
\* The identifiers a caller may pass: None, 0, or one a record may have.
StoreIds == 0..MaxRuns
ProjectIdInputs == {NoneId} \cup StoreIds
NoProject == [user_idea |-> "", status |-> "absent"]

\* The artifact mapping save_output returns, in insertion order.
ArtifactTypes == <<"prd", "brand_assets", "architecture", "source_code",
                   "marketing_plan">>

\* The idea given to the k-th call of run_genesis_pipeline.
IdeaOf(k) == IF k = 1 THEN "idea one" ELSE "idea two"

\* update_project_status(project_id, status, db): the store after it, or the
\* error it raises.  It is a query, the assignment, db.commit and db.refresh:
\* it fails before the commit has taken effect (the query or the commit
\* raises), or at the refresh, the new status committed.
UpdateOutcomes == {"none", "commit", "refresh"}
update_project_status(st, pid, status, failsAt) ==
    IF failsAt = "commit"
    THEN [ok |-> FALSE, error |-> "DBError", committed |-> FALSE, store |-> st]
    ELSE IF pid \notin StoreIds \/ st[pid] = NoProject
    THEN [ok |-> FALSE, error |-> "ValueError", committed |-> FALSE,
          store |-> st]
    ELSE [ok |-> failsAt = "none",
          error |-> IF failsAt = "none" THEN "" ELSE "DBError",
          committed |-> TRUE,
          store |-> [st EXCEPT ![pid].status = status]]

\* ------------------------------------------------------------ the export
\* The files a call of save_output writes: path -> content.
EmptyFs == [p \in {} |-> ""]

\* A file opened for appending: what is written follows what was there.
OpenAppend(fs, path, text) ==
    [p \in DOMAIN fs \cup {path} |->
        IF p = path
        THEN (IF path \in DOMAIN fs THEN fs[path] ELSE "") \o text
        ELSE fs[p]]

\* with open(path, "w") as f: f.write(text)
OpenWrite(fs, path, text) ==
    [p \in DOMAIN fs \cup {path} |-> IF p = path THEN text ELSE fs[p]]

\* os.path.join(a, b): an absolute b discards a.
os_path_join(a, b) ==
    IF b # "" /\ Head(b) = "/" THEN b ELSE a \o "/" \o b

\* output_dir = f"output/project_{project_id}"
OutputDir(pid) == "output/project_" \o ToString(pid)

\* for filename, code in final_state["source_code"].items(): write the file
RECURSIVE WriteCode(_, _, _, _)
WriteCode(fs, code_dir, items, todo) ==
    IF todo = {} THEN fs
    ELSE LET k == CHOOSE x \in todo : TRUE
         IN  WriteCode(OpenWrite(fs, os_path_join(code_dir, k), items[k]),
                       code_dir, items, todo \ {k})

\* save_output(final_state, output_dir) on the files fs: the files after it,
\* and the artifact mapping it returns (its keys in insertion order and the
\* path of each) or the exception it raises.
save_output(fs, final_state, output_dir) ==
    LET prd_path == output_dir \o "/PRD.md"
        brand_path == output_dir \o "/brand_guide.json"
        arch_path == output_dir \o "/architecture.json"
        code_dir == output_dir \o "/source_code"
        marketing_path == output_dir \o "/marketing_plan.md"
        install_path == output_dir \o "/INSTALL_GUIDE.md"
        hasGuide == "install_guide" \in DOMAIN final_state
        f1 == OpenWrite(fs, prd_path, final_state.prd_content)
        f2 == OpenWrite(f1, brand_path, JsonDumps(final_state.brand_assets))
        f3 == OpenWrite(f2, arch_path, JsonDumps(final_state.architecture_map))
    IN  IF final_state.source_code.type # "dict"
        THEN [raised |-> TRUE, exc |-> "AttributeError", fs |-> f3,
              artifacts |-> <<>>, paths |-> EmptyItems]
        ELSE LET f4 == WriteCode(f3, code_dir, final_state.source_code.items,
                                 DOMAIN final_state.source_code.items)
                 f5 == OpenWrite(f4, marketing_path,
                                 final_state.marketing_plan)
                 f6 == IF hasGuide
                       THEN OpenWrite(f5, install_path,
                                      final_state.install_guide)
                       ELSE f5
                 keys == ArtifactTypes
                         \o (IF hasGuide THEN <<"install_guide">> ELSE <<>>)
             IN  [raised |-> FALSE, exc |-> "", fs |-> f6,
                  artifacts |-> keys,
                  paths |-> [t \in {keys[i] : i \in 1..Len(keys)} |->
                               CASE t = "prd" -> prd_path
                                 [] t = "brand_assets" -> brand_path
                                 [] t = "architecture" -> arch_path
                                 [] t = "source_code" -> code_dir
                                 [] t = "marketing_plan" -> marketing_path
                                 [] t = "install_guide" -> install_path]]

\* ------------------------------------------------------- the environment
\* os.getenv("OPENAI_API_KEY"): unset (None), or a key.
Unset == "<unset>"
EnvKeys == {Unset, "sk-test"}

\* An entry point that starts the run without looking at the credential.
KeyCheckSkipped(key) == TRUE

\* main(): `if not os.getenv("OPENAI_API_KEY"): raise ValueError(...)`
KeyVerified(key) == key # Unset /\ key # ""

\* ------------------------------------------------------------ the prompts
\* A user message that embeds every output field of the state.
PromptWholeState(n, s) ==
    "User Idea: " \o s.user_idea \o "\n\n" \o s.prd_content
    \o JsonDumps(s.brand_assets) \o JsonDumps(s.architecture_map)
    \o JsonDumps(s.source_code) \o s.marketing_plan

\* The HumanMessage each unit builds from the state it is invoked with (the
\* SystemMessage is a constant text).
Prompt(n, s) ==
    CASE n = "product_owner" -> "User Idea: " \o s.user_idea
      [] n = "creative_director" ->
            "User Idea: " \o s.user_idea \o "\n\nPRD Summary: "
            \o Slice(s.prd_content, 500) \o "..."
      [] n = "solutions_architect" ->
            "User Idea: " \o s.user_idea \o "\n\nPRD: "
            \o Slice(s.prd_content, 800) \o "..."
      [] n = "lead_developer" ->
            "User Idea: " \o s.user_idea
            \o "\n\nArchitecture:\n" \o JsonDumps(s.architecture_map)
            \o "\n\nBrand Assets:\n" \o JsonDumps(s.brand_assets)
      [] n = "growth_hacker" ->
            "User Idea: " \o s.user_idea
            \o "\n\nProduct Overview:\n" \o Slice(s.prd_content, 500) \o "..."
            \o "\n\nBrand Identity:\nBrand Name: "
            \o DictGet(s.brand_assets, "brand_name", "N/A")
            \o "\nTagline: " \o DictGet(s.brand_assets, "tagline", "N/A")
            \o "\n\nProject Files Generated: "
            \o ToString(PyLen(s.source_code)) \o " files"

\* The output fields of the state a unit's prompt is built from.
Reads(n) ==
    CASE n = "product_owner" -> {}
      [] n = "creative_director" -> {"prd_content"}
      [] n = "solutions_architect" -> {"prd_content"}
      [] n = "lead_developer" -> {"architecture_map", "brand_assets"}
      [] n = "growth_hacker" -> {"prd_content", "brand_assets", "source_code"}

\* ------------------------------------------------------------ agent units
NoUpdate == [set |-> FALSE, fields |-> EmptyItems, messages |-> <<>>]

\* The try block of a unit up to the awaited call: llm = get_llm() cannot
\* build the client without the credential, and the growth_hacker's context
\* calls .get on brand_assets, which a list does not have.
AgentEnter(n, s, key) ==
    IF key = Unset
    THEN [raised |-> TRUE, exc |-> "OpenAIError", update |-> NoUpdate]
    ELSE IF n = "growth_hacker" /\ s.brand_assets.type # "dict"
    THEN [raised |-> TRUE, exc |-> "AttributeError", update |-> NoUpdate]
    ELSE [raised |-> FALSE, exc |-> "", update |-> NoUpdate]

\* The keys of the update a unit returns.
UpdateKeys(u) == IF u.set THEN DOMAIN u.fields \cup {"messages"} ELSE {}

\* A unit that returns the whole state it received with its field replaced.
AgentReturnWholeState(n, s, value) ==
    [set |-> TRUE,
     fields |-> [f \in OutputFields |->
                    IF f = OutputField(n) THEN value ELSE s[f]],
     messages |-> Append(s.messages, n)]

\* A unit whose update also carries the idea, rewritten.
AgentReturnWithIdea(n, s, value) ==
    [set |-> TRUE,
     fields |-> [f \in {OutputField(n), "user_idea"} |->
                    IF f = "user_idea" THEN "" ELSE value],
     messages |-> Append(s.messages, n)]

\* return {"<own field>": value, "messages": state["messages"] + [response]}
AgentReturn(n, s, value) ==
    [set |-> TRUE,
     fields |-> [f \in {OutputField(n)} |-> value],
     messages |-> Append(s.messages, n)]

\* A try block that takes text it cannot parse for the empty object.
AgentBodyLenient(n, s, content) ==
    IF content = CallFailed
    THEN [raised |-> TRUE, exc |-> "LLMError", update |-> NoUpdate]
    ELSE [raised |-> FALSE, exc |-> "",
          update |-> AgentReturn(n, s, IF n \in JsonUnits
                                       THEN JsonLoads(content).value
                                       ELSE content)]

\* The try block of a unit, from the awaited response on: the call may raise,
\* the structured units json.loads the text, then the update is returned.
AgentBody(n, s, content) ==
    IF content = CallFailed
    THEN [raised |-> TRUE, exc |-> "LLMError", update |-> NoUpdate]
    ELSE IF n \in JsonUnits
         THEN LET p == JsonLoads(content)
              IN  IF p.ok
                  THEN [raised |-> FALSE, exc |-> "",
                        update |-> AgentReturn(n, s, p.value)]
                  ELSE [raised |-> TRUE, exc |-> "JSONDecodeError",
                        update |-> NoUpdate]
         ELSE [raised |-> FALSE, exc |-> "",
               update |-> AgentReturn(n, s, content)]

\* An except clause that logs and returns nothing instead of raising.
AgentExceptSwallow(n, s, r) ==
    [raised |-> FALSE, exc |-> r.exc,
     update |-> [set |-> TRUE, fields |-> EmptyItems, messages |-> s.messages]]

\* An except clause that logs and returns the field's empty default.
AgentExceptDefault(n, s, r) ==
    [raised |-> FALSE, exc |-> r.exc,
     update |-> AgentReturn(n, s, IF n \in JsonUnits
                                  THEN PyDict(EmptyItems) ELSE "")]

\* except Exception as e: log_agent_execution(..., 'error'); raise
AgentExcept(n, s, r) == r

\* A whole agent unit applied to the state it receives and the backend's
\* answer: what it returns or raises.
Agent(n, s, content) ==
    LET r == AgentBody(n, s, content)
    IN  IF r.raised THEN AgentExcept(n, s, r) ELSE r

\* response.response_metadata['token_usage'] of an answer: a dictionary
\* with total_tokens, or None (a backend that reports no usage).
UsageReported == "usage"
UsageNone == "None"
TokenUsages == {UsageReported, UsageNone}

\* tokens_used = response.response_metadata.get('token_usage', {})
\*                   .get('total_tokens', 0): the count the answer reports,
\* here the length of its text; None has no get.
TokensUsed(content, usage) ==
    IF usage = UsageNone
    THEN [raised |-> TRUE, exc |-> "AttributeError:token_usage", tokens |-> 0]
    ELSE [raised |-> FALSE, exc |-> "", tokens |-> Len(content)]

\* The unit with its telemetry: after the response is taken (and parsed) the
\* token count is extracted and log_agent_execution is called, inside the
\* same try block, before the return statement.
AgentRun(n, s, content, usage) ==
    LET r == Agent(n, s, content)
        t == TokensUsed(content, usage)
    IN  IF r.raised \/ ~t.raised THEN r
        ELSE AgentExcept(n, s, [raised |-> TRUE, exc |-> t.exc,
                                update |-> NoUpdate])

\* ------------------------------------------------- applying a superstep
\* A history channel whose reducer concatenates (operator.add).
ApplyUpdateConcat(s, u) ==
    [k \in DOMAIN s |->
        IF k \in DOMAIN u.fields THEN u.fields[k]
        ELSE IF k = "messages" THEN s.messages \o u.messages
        ELSE s[k]]

\* One update written to the channels: an output field is replaced, the
\* history goes through its reducer.
ApplyUpdate(s, u) ==
    [k \in DOMAIN s |->
        IF k \in DOMAIN u.fields THEN u.fields[k]
        ELSE IF k = "messages" THEN add_messages(s.messages, u.messages)
        ELSE s[k]]

RECURSIVE ApplyWrites(_, _, _, _)
ApplyWrites(s, ran, ups, i) ==
    IF i > Len(NodeOrder) THEN s
    ELSE LET n == NodeOrder[i]
         IN  ApplyWrites(IF n \in ran THEN ApplyUpdate(s, ups[n]) ELSE s,
                         ran, ups, i + 1)

\* The units of `ran` whose update holds field f, in the order applied.
RECURSIVE WritersOf(_, _, _, _)
WritersOf(f, ran, ups, i) ==
    IF i > Len(NodeOrder) THEN <<>>
    ELSE LET n == NodeOrder[i]
         IN  (IF n \in ran /\ f \in DOMAIN ups[n].fields THEN <<n>> ELSE <<>>)
             \o WritersOf(f, ran, ups, i + 1)

\* ------------------------------------------------------------------ state
VARIABLES
    store,          \* the projects table: id -> [user_idea, status]
    artifacts,      \* the artifacts table: id -> the artifact types attached
    nextId,         \* the next primary key of the projects table
    runs,           \* entries into run_genesis_pipeline or main so far
    pc,             \* where the Run Driver is
    user_idea,      \* its argument
    project_id,     \* its argument, then the created record's id
    db,             \* its session: "none", "open", "closed"
    exc,            \* the exception caught by `except Exception as e`
    origin,         \* the first exception raised inside the try block
    outcome,        \* what the caller gets: [kind, exc, state]
    statusSeq,      \* the statuses this run has set on its record
    failedAttempts, \* update_project_status(.., FAILED, ..) calls of this run
    exported,       \* save_output has written the files
    artifacts_dict, \* the mapping save_output returned
    attached,       \* artifact descriptors this run has attached
    state,          \* the graph's channels: the Shared State
    step,           \* the superstep of the graph (0: not invoked)
    stepTasks,      \* the nodes of the current superstep
    task,           \* node -> "idle", "running", "returned", "raised", "cancelled"
    update,         \* node -> the update it returned, applied at the step's end
    received,       \* node -> the state it was invoked with
    invoked,        \* node -> how often it was invoked in this run
    calls,          \* node -> external generation calls it issued in this run
    nodeExc,        \* node -> the exception raised inside its try block
    writers,        \* output field -> the units whose update wrote it
    prompt,         \* node -> the user message it sent to the backend
    response,       \* node -> the text the backend answered
    finished,       \* the nodes of the current superstep that have returned,
                    \* in the order in which they completed
    api_key,        \* the environment's OPENAI_API_KEY
    cli,            \* main(): "none" (not used), "started", "config_error"
    files,          \* the files this run's save_output wrote: path -> text
    table,          \* the projects table the history page reads: the status
                    \* of each record, oldest first (record i is table[i])
    page,           \* the history sidebar: "none", "empty", "listed"
    status_filter,  \* the "Filter by Status" selection of the sidebar
    shown,          \* the record ids the sidebar displays, top to bottom
    invocation,     \* run -> an ainvoke call of the shared compiled graph
    channels        \* channels id -> the Shared State an ainvoke works on

dbVars == <<store, artifacts, nextId>>
driverVars == <<runs, pc, user_idea, project_id, db, exc, origin, outcome,
                statusSeq, failedAttempts, exported, artifacts_dict, attached>>
graphVars == <<state, step, stepTasks, task, update, received, invoked, calls,
               nodeExc, writers, prompt, response, finished>>
envVars == <<api_key, cli, files>>
listVars == <<table, page, status_filter, shown>>
concVars == <<invocation, channels>>
vars == <<dbVars, driverVars, graphVars, envVars, listVars, concVars>>

NoOutcome == [kind |-> "none", exc |-> "", state |-> NoState]

\* The run-local part of the state, as it is when run_genesis_pipeline is
\* entered.
FreshRun ==
    /\ exc' = ""
    /\ origin' = ""
    /\ outcome' = NoOutcome
    /\ statusSeq' = <<>>
    /\ failedAttempts' = 0
    /\ exported' = FALSE
    /\ artifacts_dict' = <<>>
    /\ attached' = 0
    /\ state' = NoState
    /\ step' = 0
    /\ stepTasks' = {}
    /\ task' = [n \in Nodes |-> "idle"]
    /\ update' = [n \in Nodes |-> NoUpdate]
    /\ received' = [n \in Nodes |-> NoState]
    /\ invoked' = [n \in Nodes |-> 0]
    /\ calls' = [n \in Nodes |-> 0]
    /\ nodeExc' = [n \in Nodes |-> ""]
    /\ writers' = [f \in OutputFields |-> <<>>]
    /\ prompt' = [n \in Nodes |-> ""]
    /\ response' = [n \in Nodes |-> ""]
    /\ finished' = <<>>
    /\ files' = EmptyFs

\* The history page before it is rendered.
NoPage ==
    /\ page = "none"
    /\ status_filter = "All"
    /\ shown = <<>>

\* The calls of run_genesis_pipeline that may be under way at once in the
\* process (two coroutines of one event loop).
Concurrent == {1, 2}

\* A call that has not reached genesis_pipeline.ainvoke: its project id, the
\* superstep of its invocation and the nodes of that superstep, the fields
\* its own nodes have written, whether a node of it raised, the directory it
\* exported to, and whether it took a step while the other call was under
\* way.
NoInvocation ==
    [project_id |-> NoneId, step |-> 0, tasks |-> {}, wrote |-> EmptyItems,
     raised |-> FALSE, output_dir |-> "", overlapped |-> FALSE]

\* The state after construction, the Shared State and the history page
\* apart.
InitRun ==
    /\ invocation = [r \in Concurrent |-> NoInvocation]
    /\ channels = [c \in Concurrent |-> NoState]
    /\ store = [i \in StoreIds |-> NoProject]
    /\ artifacts = [i \in StoreIds |-> <<>>]
    /\ nextId = 1
    /\ runs = 0
    /\ pc = "idle"
    /\ user_idea = ""
    /\ project_id = NoneId
    /\ db = "none"
    /\ exc = ""
    /\ origin = ""
    /\ outcome = NoOutcome
    /\ statusSeq = <<>>
    /\ failedAttempts = 0
    /\ exported = FALSE
    /\ artifacts_dict = <<>>
    /\ attached = 0
    /\ step = 0
    /\ stepTasks = {}
    /\ task = [n \in Nodes |-> "idle"]
    /\ update = [n \in Nodes |-> NoUpdate]
    /\ received = [n \in Nodes |-> NoState]
    /\ invoked = [n \in Nodes |-> 0]
    /\ calls = [n \in Nodes |-> 0]
    /\ nodeExc = [n \in Nodes |-> ""]
    /\ writers = [f \in OutputFields |-> <<>>]
    /\ prompt = [n \in Nodes |-> ""]
    /\ response = [n \in Nodes |-> ""]
    /\ finished = <<>>
    /\ api_key \in EnvKeys
    /\ cli = "none"
    /\ files = EmptyFs

\* The state after construction, the history page apart.
InitPipeline ==
    /\ InitRun
    /\ state = NoState

Init ==
    /\ InitPipeline
    /\ table = <<>>
    /\ NoPage

\* An exception raised inside the try block of run_genesis_pipeline: control
\* goes to `except Exception as e`.
Raise(e) ==
    /\ pc' = "except"
    /\ exc' = e
    /\ origin' = e

\* ------------------------------------------------------------ Run Driver
\* create_project is db.add, db.commit, db.refresh: it returns the record
\* ("none" fails), or raises at the commit, nothing stored, or raises at the
\* refresh, the record committed.
CreateOutcomes == {"none", "commit", "refresh"}

\* db = get_db(): a new session of the session factory.
get_db == "open"

\* Session.close()
close(session) == "closed"

\* The store operations (create_project, get_project, update_project_status,
\* add_artifact, save_project_artifacts): should_close = False;
\* if db is None: db = get_db(); should_close = True
should_close(dbArg) == dbArg = "none"

\* A store operation that closes the session it worked with in any case.
finally_close_always(dbArg) ==
    close(IF should_close(dbArg) THEN get_db ELSE dbArg)

\* finally: if should_close: db.close() -- the session the operation worked
\* with, as the operation leaves it.
finally_close(dbArg) ==
    IF should_close(dbArg) THEN close(get_db) ELSE dbArg

\* run_genesis_pipeline(user_idea, project_id) is called; db = get_db().
StartRun ==
    /\ pc \in {"idle", "done"}
    /\ runs < MaxRuns
    /\ \E pid \in ProjectIdInputs :
        /\ project_id' = pid
        /\ user_idea' = IdeaOf(runs + 1)
    /\ runs' = runs + 1
    /\ db' = get_db
    /\ pc' = "create_or_get"
    /\ cli' = "none"
    /\ FreshRun
    /\ UNCHANGED <<dbVars, api_key, listVars, concVars>>

\* main(): the credential is verified, then run_genesis_pipeline(user_idea)
\* is called without a project_id.
Main ==
    /\ pc \in {"idle", "done"}
    /\ runs < MaxRuns
    /\ runs' = runs + 1
    /\ project_id' = NoneId
    /\ IF KeyVerified(api_key)
       THEN /\ cli' = "started"
            /\ user_idea' = IdeaOf(runs + 1)
            /\ db' = get_db
            /\ pc' = "create_or_get"
       ELSE /\ cli' = "config_error"
            /\ user_idea' = ""
            /\ db' = "none"
            /\ pc' = "done"
    /\ FreshRun
    /\ UNCHANGED <<dbVars, api_key, listVars, concVars>>

\* if project_id is None: project = create_project(user_idea, db)
CreateProject ==
    /\ pc = "create_or_get"
    /\ project_id = NoneId
    /\ \E failsAt \in CreateOutcomes :
        /\ IF failsAt = "commit"
           THEN UNCHANGED <<store, nextId, statusSeq>>
           ELSE /\ store' = [store EXCEPT
                               ![nextId] = [user_idea |-> user_idea,
                                            status |-> "pending"]]
                /\ nextId' = nextId + 1
                /\ statusSeq' = <<"pending">>
        /\ IF failsAt = "none"
           THEN /\ project_id' = nextId
                /\ pc' = "set_running"
                /\ UNCHANGED <<exc, origin>>
           ELSE /\ Raise("DBError:create_project")
                /\ UNCHANGED project_id
    /\ db' = finally_close(db)
    /\ UNCHANGED <<artifacts, runs, user_idea, outcome, failedAttempts,
                   exported, artifacts_dict, attached, graphVars, envVars, listVars, concVars>>

\* A re-execution that sets the status and keeps the record's idea.
GetProjectKeepIdea ==
    /\ pc = "create_or_get"
    /\ project_id # NoneId
    /\ \E dbOk \in BOOLEAN :
        IF ~dbOk
        THEN /\ Raise("DBError:get_project")
             /\ UNCHANGED <<store, statusSeq>>
        ELSE IF store[project_id] = NoProject
        THEN /\ Raise("ValueError:not_found")
             /\ UNCHANGED <<store, statusSeq>>
        ELSE /\ store' = [store EXCEPT ![project_id].status = "pending"]
             /\ statusSeq' = <<"pending">>
             /\ pc' = "set_running"
             /\ UNCHANGED <<exc, origin>>
    /\ db' = finally_close(db)
    /\ UNCHANGED <<artifacts, nextId, runs, user_idea, project_id, outcome,
                   failedAttempts, exported, artifacts_dict, attached,
                   graphVars, envVars, listVars, concVars>>

\* else: project = get_project(project_id, db); not found raises ValueError;
\* found: user_idea and status PENDING are set and committed.
GetProject ==
    /\ pc = "create_or_get"
    /\ project_id # NoneId
    /\ \E dbOk \in BOOLEAN :
        IF ~dbOk
        THEN /\ Raise("DBError:get_project")
             /\ UNCHANGED <<store, statusSeq>>
        ELSE IF store[project_id] = NoProject
        THEN /\ Raise("ValueError:not_found")
             /\ UNCHANGED <<store, statusSeq>>
        ELSE /\ store' = [store EXCEPT
                            ![project_id] = [user_idea |-> user_idea,
                                             status |-> "pending"]]
             /\ statusSeq' = <<"pending">>
             /\ pc' = "set_running"
             /\ UNCHANGED <<exc, origin>>
    /\ db' = finally_close(db)
    /\ UNCHANGED <<artifacts, nextId, runs, user_idea, project_id, outcome,
                   failedAttempts, exported, artifacts_dict, attached,
                   graphVars, envVars, listVars, concVars>>

\* update_project_status(project_id, ProjectStatus.RUNNING, db)
UpdateRunning ==
    /\ pc = "set_running"
    /\ \E failsAt \in UpdateOutcomes :
        LET r == update_project_status(store, project_id, "running", failsAt)
        IN  /\ store' = r.store
            /\ statusSeq' = IF r.committed THEN Append(statusSeq, "running")
                            ELSE statusSeq
            /\ IF r.ok
               THEN pc' = "invoke" /\ UNCHANGED <<exc, origin>>
               ELSE Raise(r.error \o ":update_running")
    /\ db' = finally_close(db)
    /\ UNCHANGED <<artifacts, nextId, runs, user_idea, project_id, outcome,
                   failedAttempts, exported, artifacts_dict, attached,
                   graphVars, envVars, listVars, concVars>>

\* initial_state = create_initial_state(user_idea), start_time and project_id
\* are recorded, and genesis_pipeline.ainvoke(initial_state) plans the first
\* superstep: the entry point.
Invoke ==
    /\ pc = "invoke"
    /\ state' = [create_initial_state(user_idea) EXCEPT
                    !.execution_metadata.start_time = TRUE,
                    !.execution_metadata.project_id = project_id]
    /\ step' = 1
    /\ stepTasks' = {EntryPoint}
    /\ pc' = "graph"
    /\ UNCHANGED <<dbVars, runs, user_idea, project_id, db, exc, origin,
                   outcome, statusSeq, failedAttempts, exported,
                   artifacts_dict, attached, task, update, received, invoked,
                   calls, nodeExc, writers, prompt, response, finished,
                   envVars, listVars, concVars>>

\* ------------------------------------------------------ execution graph
\* A node of the current superstep is invoked: it reads the state, builds
\* its prompt and awaits its one generation call; an exception before the
\* call goes through the unit's except clause.
NodeStart(n) ==
    /\ pc = "graph"
    /\ n \in stepTasks
    /\ task[n] = "idle"
    /\ received' = [received EXCEPT ![n] = state]
    /\ invoked' = [invoked EXCEPT ![n] = @ + 1]
    /\ LET e == AgentEnter(n, state, api_key)
           r == AgentExcept(n, state, e)
       IN  IF ~e.raised
           THEN /\ task' = [task EXCEPT ![n] = "running"]
                /\ prompt' = [prompt EXCEPT ![n] = Prompt(n, state)]
                /\ calls' = [calls EXCEPT ![n] = @ + 1]
                /\ UNCHANGED <<update, nodeExc, finished>>
           ELSE /\ task' = [task EXCEPT ![n] =
                              IF r.raised THEN "raised" ELSE "returned"]
                /\ nodeExc' = [nodeExc EXCEPT ![n] = r.exc]
                /\ update' = [update EXCEPT ![n] = r.update]
                /\ finished' = IF r.raised THEN finished
                               ELSE Append(finished, n)
                /\ UNCHANGED <<prompt, calls>>
    /\ UNCHANGED <<dbVars, driverVars, state, step, stepTasks, writers,
                   response, envVars, listVars, concVars>>

\* The awaited call answers and the unit returns its update.
NodeReturn(n) ==
    /\ pc = "graph"
    /\ task[n] = "running"
    /\ \E content \in Contents(n) \cup {CallFailed}, usage \in TokenUsages :
        LET r == AgentRun(n, received[n], content, usage)
        IN  /\ ~r.raised
            /\ update' = [update EXCEPT ![n] = r.update]
            /\ nodeExc' = [nodeExc EXCEPT ![n] = r.exc]
            /\ response' = [response EXCEPT ![n] = content]
    /\ task' = [task EXCEPT ![n] = "returned"]
    /\ finished' = Append(finished, n)
    /\ UNCHANGED <<dbVars, driverVars, state, step, stepTasks, received,
                   invoked, calls, writers, prompt, envVars, listVars, concVars>>

\* The awaited call raises, or its answer does not parse: the unit raises.
NodeRaise(n) ==
    /\ pc = "graph"
    /\ task[n] = "running"
    /\ \E content \in Contents(n) \cup {CallFailed}, usage \in TokenUsages :
        LET r == AgentRun(n, received[n], content, usage)
        IN  /\ r.raised
            /\ nodeExc' = [nodeExc EXCEPT ![n] = r.exc]
            /\ response' = [response EXCEPT ![n] = content]
    /\ task' = [task EXCEPT ![n] = "raised"]
    /\ UNCHANGED <<dbVars, driverVars, state, step, stepTasks, update,
                   received, invoked, calls, writers, prompt, finished,
                   envVars, listVars, concVars>>

\* The superstep is over when every node of it has returned.
StepComplete ==
    /\ stepTasks # {}
    /\ \A n \in stepTasks : task[n] = "returned"

\* The driver statement after a successful save_output skipped.
NextAfterExportSkip == "set_completed"

\* save_output is followed by save_project_artifacts.
NextAfterExport == "attach"

\* Updates written one after the other in the order of a sequence of nodes.
RECURSIVE ApplyInOrder(_, _, _)
ApplyInOrder(s, seq, ups) ==
    IF seq = <<>> THEN s
    ELSE ApplyInOrder(ApplyUpdate(s, ups[Head(seq)]), Tail(seq), ups)

\* A graph that writes the updates of a superstep in the order in which its
\* nodes completed.
GraphStepCompletionOrder ==
    /\ pc = "graph"
    /\ StepComplete
    /\ LET ran == {n \in stepTasks : task[n] = "returned"}
           next == Triggered(ran)
       IN  /\ state' = ApplyInOrder(state, finished, update)
           /\ writers' = [f \in OutputFields |->
                            writers[f] \o WritersOf(f, ran, update, 1)]
           /\ stepTasks' = next
           /\ task' = [n \in Nodes |-> IF n \in next THEN "idle" ELSE task[n]]
           /\ finished' = <<>>
           /\ IF next = {}
              THEN pc' = "export" /\ step' = step
              ELSE pc' = pc /\ step' = step + 1
    /\ UNCHANGED <<dbVars, runs, user_idea, project_id, db, exc, origin,
                   outcome, statusSeq, failedAttempts, exported,
                   artifacts_dict, attached, update, received, invoked, calls,
                   nodeExc, prompt, response, envVars, listVars, concVars>>

\* The end of a superstep: the returned updates are written to the channels
\* and the next superstep is planned from the edges; with no node left the
\* graph invocation returns the state to the driver.
GraphStep ==
    /\ pc = "graph"
    /\ StepComplete
    /\ LET ran == {n \in stepTasks : task[n] = "returned"}
           next == Triggered(ran)
       IN  /\ state' = ApplyWrites(state, ran, update, 1)
           /\ writers' = [f \in OutputFields |->
                            writers[f] \o WritersOf(f, ran, update, 1)]
           /\ stepTasks' = next
           /\ task' = [n \in Nodes |-> IF n \in next THEN "idle" ELSE task[n]]
           /\ finished' = <<>>
           /\ IF next = {}
              THEN pc' = "export" /\ step' = step
              ELSE pc' = pc /\ step' = step + 1
    /\ UNCHANGED <<dbVars, runs, user_idea, project_id, db, exc, origin,
                   outcome, statusSeq, failedAttempts, exported,
                   artifacts_dict, attached, update, received, invoked, calls,
                   nodeExc, prompt, response, envVars, listVars, concVars>>

\* A graph whose exception leaves ainvoke with the step's other nodes left
\* running.
GraphPanicNoCancel ==
    /\ pc = "graph"
    /\ \E n \in stepTasks :
        /\ task[n] = "raised"
        /\ Raise(nodeExc[n])
    /\ UNCHANGED <<dbVars, runs, user_idea, project_id, db, outcome,
                   statusSeq, failedAttempts, exported, artifacts_dict,
                   attached, graphVars, envVars, listVars, concVars>>

\* A node of the superstep has raised: the nodes of the step still pending
\* are cancelled and the exception leaves ainvoke.
GraphPanic ==
    /\ pc = "graph"
    /\ \E n \in stepTasks :
        /\ task[n] = "raised"
        /\ Raise(nodeExc[n])
    /\ task' = [n \in Nodes |->
                  IF n \in stepTasks /\ task[n] \in {"idle", "running"}
                  THEN "cancelled" ELSE task[n]]
    /\ UNCHANGED <<dbVars, runs, user_idea, project_id, db, outcome,
                   statusSeq, failedAttempts, exported, artifacts_dict,
                   attached, state, step, stepTasks, update, received,
                   invoked, calls, nodeExc, writers, prompt, response,
                   finished, envVars, listVars, concVars>>

\* ------------------------------------------------- Run Driver, after ainvoke
\* end_time is recorded and save_output(final_state, output_dir) writes the
\* files; it raises OSError when the output directory cannot be made, and
\* what the writes themselves raise.
SaveOutput ==
    /\ pc = "export"
    /\ state' = [state EXCEPT !.execution_metadata.end_time = TRUE]
    /\ \E ioOk \in BOOLEAN :
        LET r == save_output(files, state', OutputDir(project_id))
        IN  IF ~ioOk
            THEN /\ Raise("OSError:save_output")
                 /\ UNCHANGED <<exported, artifacts_dict, files>>
            ELSE IF r.raised
            THEN /\ Raise(r.exc)
                 /\ files' = r.fs
                 /\ UNCHANGED <<exported, artifacts_dict>>
            ELSE /\ exported' = TRUE
                 /\ artifacts_dict' = r.artifacts
                 /\ files' = r.fs
                 /\ pc' = NextAfterExport
                 /\ UNCHANGED <<exc, origin>>
    /\ UNCHANGED <<dbVars, runs, user_idea, project_id, db, outcome,
                   statusSeq, failedAttempts, attached, step, stepTasks, task,
                   update, received, invoked, calls, nodeExc, writers, prompt,
                   response, finished, api_key, cli, listVars, concVars>>

\* save_project_artifacts: one add_artifact (with its own commit) per entry
\* of the mapping, in order.
AddArtifact ==
    /\ pc = "attach"
    /\ attached < Len(artifacts_dict)
    /\ \E dbOk \in BOOLEAN :
        IF dbOk
        THEN /\ artifacts' = [artifacts EXCEPT ![project_id] =
                                Append(@, artifacts_dict[attached + 1])]
             /\ attached' = attached + 1
             /\ pc' = IF attached + 1 = Len(artifacts_dict)
                      THEN "set_completed" ELSE "attach"
             /\ UNCHANGED <<exc, origin>>
        ELSE /\ Raise("DBError:add_artifact")
             /\ UNCHANGED <<artifacts, attached>>
    /\ db' = finally_close(db)
    /\ UNCHANGED <<store, nextId, runs, user_idea, project_id, outcome,
                   statusSeq, failedAttempts, exported, artifacts_dict,
                   graphVars, envVars, listVars, concVars>>

\* update_project_status(project_id, ProjectStatus.COMPLETED, db)
UpdateCompleted ==
    /\ pc = "set_completed"
    /\ \E failsAt \in UpdateOutcomes :
        LET r == update_project_status(store, project_id, "completed",
                                       failsAt)
        IN  /\ store' = r.store
            /\ statusSeq' = IF r.committed THEN Append(statusSeq, "completed")
                            ELSE statusSeq
            /\ IF r.ok
               THEN pc' = "return" /\ UNCHANGED <<exc, origin>>
               ELSE Raise(r.error \o ":update_completed")
    /\ db' = finally_close(db)
    /\ UNCHANGED <<artifacts, nextId, runs, user_idea, project_id, outcome,
                   failedAttempts, exported, artifacts_dict, attached,
                   graphVars, envVars, listVars, concVars>>

\* return final_state, project_id; finally: db.close()
Return ==
    /\ pc = "return"
    /\ outcome' = [kind |-> "returned", exc |-> "", state |-> state]
    /\ db' = close(db)
    /\ pc' = "done"
    /\ UNCHANGED <<dbVars, runs, user_idea, project_id, exc, origin,
                   statusSeq, failedAttempts, exported, artifacts_dict,
                   attached, graphVars, envVars, listVars, concVars>>

\* A handler that lets the failure of the status update replace the error.
ReRaiseSecondary(e, secondary) == IF secondary # "" THEN secondary ELSE e

\* `raise` at the end of the except clause: the caught exception again.
ReRaise(e, secondary) == e

\* except Exception as e: if project_id: try update_project_status(FAILED)
\* except: pass; log; raise; finally: db.close()
ExceptHandler ==
    /\ pc = "except"
    /\ IF Truthy(project_id)
       THEN \E failsAt \in UpdateOutcomes :
              LET r == update_project_status(store, project_id, "failed",
                                             failsAt)
              IN  /\ store' = r.store
                  /\ failedAttempts' = failedAttempts + 1
                  /\ statusSeq' = IF r.committed
                                  THEN Append(statusSeq, "failed")
                                  ELSE statusSeq
                  /\ outcome' = [kind |-> "raised",
                                 exc |-> ReRaise(exc, r.error),
                                 state |-> NoState]
       ELSE /\ outcome' = [kind |-> "raised", exc |-> ReRaise(exc, ""),
                           state |-> NoState]
            /\ UNCHANGED <<store, failedAttempts, statusSeq>>
    /\ db' = close(IF Truthy(project_id) THEN finally_close(db) ELSE db)
    /\ pc' = "done"
    /\ UNCHANGED <<artifacts, nextId, runs, user_idea, project_id, exc, origin,
                   exported, artifacts_dict, attached, graphVars, envVars, listVars, concVars>>

Next ==
    \/ StartRun
    \/ Main
    \/ CreateProject
    \/ GetProject
    \/ UpdateRunning
    \/ Invoke
    \/ \E n \in Nodes : NodeStart(n)
    \/ \E n \in Nodes : NodeReturn(n)
    \/ \E n \in Nodes : NodeRaise(n)
    \/ GraphStep
    \/ GraphPanic
    \/ SaveOutput
    \/ AddArtifact
    \/ UpdateCompleted
    \/ Return
    \/ ExceptHandler

Spec == Init /\ [][Next]_vars

\* A started run is not suspended for ever: its driver statements are taken,
\* every node of a planned superstep is scheduled and every awaited generation
\* call eventually returns or fails.  New calls of the entry points are the
\* caller's choice and need never come.
RunStep == Next /\ runs' = runs
FairSpec == Spec /\ WF_vars(RunStep)

\* ------------------------------------------- two runs in one process
\* The project ids of the records the concurrent calls run for.
ConcurrentIds == {1, 2}

\* Channels that belong to the module-level compiled graph: one Shared State
\* for every call.
ChannelsOfGraph(r) == 1

\* genesis_pipeline.ainvoke(initial_state): the compiled graph is shared, the
\* channels are built for the call from its input.
ChannelsOf(r) == r

Other(r) == CHOOSE o \in Concurrent : o # r

\* The call has invoked the graph and has neither exported nor failed.
InFlight(r) ==
    /\ invocation[r].step > 0
    /\ ~invocation[r].raised
    /\ invocation[r].output_dir = ""

\* The fields the updates of a superstep's nodes set.
Written(tasks, ups) ==
    [f \in UNION {DOMAIN ups[n].fields : n \in tasks} |->
        ups[CHOOSE n \in tasks : f \in DOMAIN ups[n].fields].fields[f]]

\* initial_state = create_initial_state(user_idea), start_time and project_id
\* set; genesis_pipeline.ainvoke(initial_state) begins.  The idea is the
\* record's.
RunInvoke(r) ==
    /\ invocation[r].step = 0
    /\ \E pid \in ConcurrentIds :
        /\ invocation' = [invocation EXCEPT ![r] =
                [@ EXCEPT !.project_id = pid, !.step = 1,
                          !.tasks = {EntryPoint},
                          !.overlapped = InFlight(Other(r))]]
        /\ channels' = [channels EXCEPT ![ChannelsOf(r)] =
                [create_initial_state(IdeaOf(pid)) EXCEPT
                    !.execution_metadata.start_time = TRUE,
                    !.execution_metadata.project_id = pid]]
    /\ UNCHANGED <<dbVars, driverVars, graphVars, envVars, listVars>>

\* One superstep of the call's invocation: its nodes run on the call's
\* channels and their updates are applied; a node that raises ends the
\* invocation, no update applied.
RunSuperstep(r) ==
    LET inv == invocation[r]
        s == channels[ChannelsOf(r)]
    IN  /\ InFlight(r)
        /\ inv.tasks # {}
        /\ \E cs \in [inv.tasks ->
                        {CallFailed} \cup UNION {Contents(n) : n \in inv.tasks}],
               us \in [inv.tasks -> TokenUsages] :
            LET res == [n \in inv.tasks |-> AgentRun(n, s, cs[n], us[n])]
                ups == [n \in Nodes |->
                          IF n \in inv.tasks THEN res[n].update ELSE NoUpdate]
            IN  /\ \A n \in inv.tasks : cs[n] \in Contents(n) \cup {CallFailed}
                /\ IF \E n \in inv.tasks : res[n].raised
                   THEN /\ invocation' = [invocation EXCEPT ![r] =
                                [@ EXCEPT !.raised = TRUE, !.tasks = {},
                                    !.overlapped = @ \/ InFlight(Other(r))]]
                        /\ UNCHANGED channels
                   ELSE /\ invocation' = [invocation EXCEPT ![r] =
                                [@ EXCEPT !.step = @ + 1,
                                    !.tasks = Triggered(inv.tasks),
                                    !.wrote = Written(inv.tasks, ups) @@ @,
                                    !.overlapped = @ \/ InFlight(Other(r))]]
                        /\ channels' = [channels EXCEPT ![ChannelsOf(r)] =
                                ApplyWrites(s, inv.tasks, ups, 1)]
        /\ UNCHANGED <<dbVars, driverVars, graphVars, envVars, listVars>>

\* final_state["execution_metadata"]["end_time"] = ...;
\* output_dir = f"output/project_{project_id}"; save_output(final_state,
\* output_dir)
RunExport(r) ==
    /\ InFlight(r)
    /\ invocation[r].tasks = {}
    /\ invocation' = [invocation EXCEPT ![r] =
            [@ EXCEPT !.output_dir = OutputDir(invocation[r].project_id),
                      !.overlapped = @ \/ InFlight(Other(r))]]
    /\ channels' = [channels EXCEPT
            ![ChannelsOf(r)].execution_metadata.end_time = TRUE]
    /\ UNCHANGED <<dbVars, driverVars, graphVars, envVars, listVars>>

ConcurrentNext ==
    \E r \in Concurrent : RunInvoke(r) \/ RunSuperstep(r) \/ RunExport(r)

\* The credential is set: the calls are under way.
ConcurrentInit == Init /\ KeyVerified(api_key)

ConcurrentSpec == ConcurrentInit /\ [][ConcurrentNext]_vars

\* ------------------------------------------------------ the history page
\* display_project_history calls load_projects(limit=50).
ListLimit == 50

\* get_all_projects(limit): order_by(created_at.desc()).limit(limit): the ids
\* of the newest records, newest first.  Records are created one after the
\* other, so the newest is the last of the table.
get_all_projects(tbl, limit) ==
    LET n == Len(tbl)
        k == IF n < limit THEN n ELSE limit
    IN  [j \in 1..k |-> n - j + 1]

\* load_projects(limit): get_all_projects, or [] when it raises.
load_projects(tbl, limit, dbOk) ==
    IF dbOk THEN get_all_projects(tbl, limit) ELSE <<>>

\* The choices of the "Filter by Status" box and status_map.
Filters == {"All", "Completed", "Running", "Failed", "Pending"}
status_map(f) ==
    CASE f = "Completed" -> "completed"
      [] f = "Running" -> "running"
      [] f = "Failed" -> "failed"
      [] f = "Pending" -> "pending"

\* [p for p in projects if p.status == status_map[filter_status]]
FilterProjects(projects, tbl, f) ==
    LET Keep(i) == tbl[i] = status_map(f)
    IN  IF f = "All" THEN projects ELSE SelectSeq(projects, Keep)

\* The tables the page is rendered on: none, a few, as many records as the
\* limit, and more; every record 'completed' but some of the two oldest and
\* the newest, which share another status.
TableSizes == {0, 1, 2, ListLimit, ListLimit + 1, ListLimit + 2}
Tables ==
    {[i \in 1..n |-> IF i \in odd THEN s ELSE "completed"] :
        n \in TableSizes, odd \in SUBSET {1, 2, ListLimit + 2},
        s \in {"failed", "running"}}

\* display_project_history(): the script is run again at every interaction,
\* with the filter the user has selected.
DisplayHistory ==
    \E dbOk \in BOOLEAN, f \in Filters :
        LET projects == load_projects(table, ListLimit, dbOk)
        IN  IF projects = <<>>
            THEN /\ page' = "empty"
                 /\ shown' = <<>>
                 /\ UNCHANGED status_filter
            ELSE /\ page' = "listed"
                 /\ status_filter' = f
                 /\ shown' = FilterProjects(projects, table, f)

\* The page alone: the store is given and the sidebar is rendered on it.
ListInit ==
    /\ InitPipeline
    /\ table \in Tables
    /\ NoPage

ListNext ==
    /\ DisplayHistory
    /\ UNCHANGED <<dbVars, driverVars, graphVars, envVars, table, concVars>>

ListSpec == ListInit /\ [][ListNext]_vars

\* ------------------------------------------------- the prompts alone
\* A text of k characters (k at most 1000), the digits in turn.
Digits == "0123456789"
TenTimes(t) == t \o t \o t \o t \o t \o t \o t \o t \o t \o t
Text(k) == SubSeq(TenTimes(TenTimes(Digits)), 1, k)

\* The requirements documents a prompt is built on: empty, short, and of
\* lengths around the two limits of the slices.
DocLengths == {0, 1, 499, 500, 501, 799, 800, 801, 1000}
Documents == {Text(k) : k \in DocLengths}

\* A unit builds its user message from the state it is invoked with.
BuildPrompt(n) ==
    /\ prompt[n] = ""
    /\ received' = [received EXCEPT ![n] = state]
    /\ prompt' = [prompt EXCEPT ![n] = Prompt(n, state)]
    /\ UNCHANGED <<dbVars, driverVars, state, step, stepTasks, task, update,
                   invoked, calls, nodeExc, writers, response, finished,
                   envVars, listVars, concVars>>

\* The state a downstream unit may be invoked with: a requirements document
\* written, the other fields as created.
PromptInit ==
    /\ InitRun
    /\ \E doc \in Documents :
         state = [create_initial_state("idea one") EXCEPT !.prd_content = doc]
    /\ table = <<>>
    /\ NoPage

PromptNext == \E n \in Nodes : BuildPrompt(n)

PromptSpec == PromptInit /\ [][PromptNext]_vars

\* --------------------------------------------------- the export alone
\* The generated-file mappings an export is given: every set of these file
\* names, plain, nested, absolute and climbing out with '..'.
FileNames == {"main.py", "src/app.py", "/tmp/evil.py", "../../escape.py"}
CodeMappings == {PyDict([k \in ks |-> "# " \o k]) : ks \in SUBSET FileNames}

\* genesis_pipeline.ainvoke has returned a final state for a record: the
\* driver is at end_time and save_output.
GraphReturned ==
    /\ pc = "idle"
    /\ \E pid \in {1, 2}, code \in CodeMappings :
         /\ project_id' = pid
         /\ state' = [create_initial_state("idea one") EXCEPT
                         !.prd_content = "# PRD",
                         !.source_code = code,
                         !.marketing_plan = "# Plan",
                         !.execution_metadata.start_time = TRUE,
                         !.execution_metadata.project_id = pid]
    /\ pc' = "export"
    /\ UNCHANGED <<dbVars, runs, user_idea, db, exc, origin, outcome,
                   statusSeq, failedAttempts, exported, artifacts_dict,
                   attached, step, stepTasks, task, update, received, invoked,
                   calls, nodeExc, writers, prompt, response, finished,
                   envVars, listVars, concVars>>

ExportNext ==
    \/ GraphReturned
    \/ SaveOutput

ExportSpec == Init /\ [][ExportNext]_vars

\* ================================================================ claims
CD == "creative_director"
SA == "solutions_architect"
LD == "lead_developer"
PO == "product_owner"
GH == "growth_hacker"

\* The dependency topology as the design states it (section 4.2).
SpecPreds(n) ==
    CASE n = PO -> {}
      [] n = CD -> {PO}
      [] n = SA -> {PO}
      [] n = LD -> {CD, SA}
      [] n = GH -> {LD}

SpecDescendants(n) ==
    CASE n = PO -> {CD, SA, LD, GH}
      [] n = CD -> {LD, GH}
      [] n = SA -> {LD, GH}
      [] n = LD -> {GH}
      [] n = GH -> {}

Failed(n) == task[n] \in {"raised", "cancelled"}

\* C1: AND-join.  Code Generator (lead_developer) is invoked only after both
\* Brand Designer and Architecture Planner have returned successfully in
\* this run; when either of them has failed (or was cancelled), Code
\* Generator is not invoked, whatever the other branch did.
C1_AndJoin ==
    /\ invoked[LD] > 0 => task[CD] = "returned" /\ task[SA] = "returned"
    /\ (Failed(CD) \/ Failed(SA)) => invoked[LD] = 0 /\ task[LD] = "idle"

\* C1 witness: Code Generator is in flight, both branches having returned.
C1_Witness ==
    task[LD] = "running" /\ task[CD] = "returned" /\ task[SA] = "returned"

\* C2: ordering guarantee.  Every node that has been invoked has all its
\* predecessors invoked and returned; Requirements Drafter is the first node
\* invoked, and while it is in flight no other node has been invoked.
C2_Ordering ==
    /\ \A n \in Nodes :
          invoked[n] > 0 =>
             \A p \in SpecPreds(n) : invoked[p] > 0 /\ task[p] = "returned"
    /\ (\E n \in Nodes : invoked[n] > 0) => invoked[PO] > 0
    /\ task[PO] = "running" =>
          \A m \in Nodes \ {PO} : invoked[m] = 0 /\ task[m] = "idle"

\* C2 witness: the last node is in flight after the whole chain before it.
C2_Witness == task[GH] = "running" /\ task[LD] = "returned"

\* C3: failure propagation.  Once a unit has raised inside its try block, no
\* direct or transitive successor of it is ever invoked in this run, the
\* driver never reaches the statements after ainvoke, and what the driver
\* catches and the caller gets is an exception raised by a unit, not a state.
C3_FailurePropagation ==
    \A n \in Nodes :
        nodeExc[n] # "" =>
            /\ \A m \in SpecDescendants(n) : invoked[m] = 0
            /\ pc \in {"graph", "except", "done"}
            /\ pc = "except" => exc \in {nodeExc[m] : m \in Nodes} \ {""}
            /\ pc = "done" =>
                  /\ outcome.kind = "raised"
                  /\ outcome.exc \in {nodeExc[m] : m \in Nodes} \ {""}
                  /\ outcome.state = NoState

\* C3 witness: Brand Designer raised while Architecture Planner returned, and
\* the run has ended with the caller getting the exception.
C3_Witness ==
    /\ pc = "done"
    /\ nodeExc[CD] = "JSONDecodeError"
    /\ task[SA] = "returned"
    /\ outcome.kind = "raised"

\* C4: fan-out concurrency.  In the superstep after Requirements Drafter's,
\* Brand Designer and Architecture Planner are both tasks of the step; each
\* of them that has not started can start and each that is in flight can
\* finish, whatever the state of the other.
C4_FanOutConcurrent ==
    (pc = "graph" /\ step = 2) =>
        /\ task[PO] = "returned"
        /\ stepTasks = {CD, SA}
        /\ \A b \in {CD, SA} :
              /\ task[b] = "idle" => ENABLED NodeStart(b)
              /\ task[b] = "running" =>
                    ENABLED NodeReturn(b) /\ ENABLED NodeRaise(b)

\* C4 witness: both branches are in flight at once.
C4_Witness == task[CD] = "running" /\ task[SA] = "running"

\* C5: write-once.  Every output field has been written at most once in the
\* run, by the unit that owns it, and within a run a step changes the value
\* of an output field only if the field was never written before and that
\* step is its one write.
C5_WriteOnce ==
    /\ [](\A f \in OutputFields :
            /\ Len(writers[f]) <= 1
            /\ \A i \in 1..Len(writers[f]) : OutputField(writers[f][i]) = f)
    /\ [][runs' = runs =>
            \A f \in OutputFields :
               state'[f] # state[f] =>
                  writers[f] = <<>> /\ Len(writers'[f]) = 1]_vars

\* C5 witness: all five output fields have been written.
C5_Witness == \A f \in OutputFields : Len(writers[f]) = 1

\* C6: join correctness on content.  Whenever Code Generator is invoked, the
\* state it receives has non-empty brand_assets and architecture_map.
C6_JoinReceivesNonEmpty ==
    invoked[LD] > 0 =>
        /\ PyLen(received[LD].brand_assets) > 0
        /\ PyLen(received[LD].architecture_map) > 0

\* C6: the state the claim excludes: Code Generator in flight on a state
\* whose brand_assets is the empty mapping the Brand Designer returned.
C6_EmptyBrandAtJoin ==
    /\ task[LD] = "running"
    /\ writers["brand_assets"] = <<CD>>
    /\ PyLen(received[LD].brand_assets) = 0

RunRaised == pc = "done" /\ outcome.kind = "raised"
HasRecord == project_id \in StoreIds /\ store[project_id] # NoProject

\* Where the claim places the failure: an agent unit, the export, or the
\* attaching of artifacts.
FailedInScope ==
    origin \in {"LLMError", "JSONDecodeError", "OpenAIError", "AttributeError",
                "AttributeError:token_usage",
                "OSError:save_output", "DBError:add_artifact"}

\* C7: a run that has failed at an agent unit, during export or while
\* attaching artifacts leaves its record in status 'failed' with zero
\* artifact descriptors attached, for a new record and for a re-executed one.
C7_FailedRunFailedRecordNoArtifacts ==
    (RunRaised /\ HasRecord /\ FailedInScope) =>
        /\ store[project_id].status = "failed"
        /\ artifacts[project_id] = <<>>

\* C7: the state the claim excludes: the run failed at an agent unit, its
\* record was marked 'failed', and artifact descriptors are attached to it.
C7_FailedWithArtifacts ==
    /\ RunRaised
    /\ HasRecord
    /\ origin \in {"LLMError", "JSONDecodeError"}
    /\ store[project_id].status = "failed"
    /\ artifacts[project_id] # <<>>

\* C8 (as claimed): whenever a run has failed with a run identifier known
\* (project_id is not None), exactly one status update to 'failed' was
\* attempted, the caller gets the original exception and no final state.
C8_OneAttemptWhenIdKnown ==
    (RunRaised /\ project_id # NoneId) =>
        /\ failedAttempts = 1
        /\ outcome.exc = origin
        /\ outcome.state = NoState

\* C8 (amended): a run that has failed attempted exactly one status update
\* to 'failed' when its run identifier is known and non-zero, and none when
\* the identifier is None or 0; never more than one is attempted; whether
\* that update succeeded or failed, the caller gets the original exception
\* (the first one raised inside the try block) and no final state; and a run
\* ends raising exactly when something was raised inside the try block.
C8_BestEffortFailedUpdate ==
    /\ failedAttempts <= 1
    /\ pc # "done" => failedAttempts = 0
    /\ RunRaised =>
          /\ failedAttempts = (IF Truthy(project_id) THEN 1 ELSE 0)
          /\ origin # ""
          /\ outcome.exc = origin
          /\ outcome.state = NoState
    /\ (pc = "done" /\ origin # "") => outcome.kind = "raised"

\* C8 witness: the run failed at an agent unit, the one status update to
\* 'failed' failed too and was swallowed: the record is still 'running' and
\* the caller has the agent's exception.
C8_Witness ==
    /\ RunRaised
    /\ HasRecord
    /\ failedAttempts = 1
    /\ store[project_id].status = "running"
    /\ outcome.exc = "LLMError"

\* The artifact types attached to record i, as a set.
AttachedTypes(i) == {artifacts[i][k] : k \in 1..Len(artifacts[i])}

\* C9: success path ordering.  Once this run has set 'completed', all five
\* nodes have returned, the end timestamp is recorded, the files are
\* exported and every artifact descriptor of the exported mapping is
\* attached to the record; a run that has returned to its caller has set
\* exactly pending, running, completed, its record is 'completed' and the
\* caller has the final state.
C9_SuccessPathOrdering ==
    /\ (\E i \in 1..Len(statusSeq) : statusSeq[i] = "completed") =>
          /\ \A n \in Nodes : task[n] = "returned"
          /\ state.execution_metadata.end_time
          /\ exported
          /\ attached = Len(ArtifactTypes)
          /\ \A k \in 1..Len(ArtifactTypes) :
                ArtifactTypes[k] \in AttachedTypes(project_id)
    /\ \A i \in 1..Len(statusSeq) : statusSeq[i] \in ProjectStatus
    /\ (pc = "done" /\ outcome.kind = "returned") =>
          /\ statusSeq = <<"pending", "running", "completed">>
          /\ store[project_id].status = "completed"
          /\ outcome.state = state
          /\ outcome.state.marketing_plan # ""

\* C9 witness: a run on a newly created record has returned to its caller.
C9_Witness ==
    /\ pc = "done"
    /\ outcome.kind = "returned"
    /\ runs = 1
    /\ store[project_id].status = "completed"

\* C10: no retries, no defaults.  In a run every unit is invoked at most
\* once and issues at most one generation call per invocation; a unit whose
\* call or parse failed has raised, has returned no update, and its output
\* field has not been written.
C10_NoRetriesNoDefaults ==
    \A n \in Nodes :
        /\ invoked[n] <= 1
        /\ calls[n] <= invoked[n]
        /\ nodeExc[n] # "" =>
              /\ task[n] = "raised"
              /\ ~update[n].set
              /\ writers[OutputField(n)] = <<>>
              /\ state[OutputField(n)] = create_initial_state(user_idea)[OutputField(n)]

\* C10 witness: Code Generator's call failed after its one invocation and
\* the run has ended.
C10_Witness ==
    /\ pc = "done"
    /\ nodeExc[LD] = "LLMError"
    /\ invoked[LD] = 1
    /\ calls[LD] = 1

\* Values the other branch's field is given: absent, empty, poisoned.
Absent == [type |-> "absent", items |-> EmptyItems]
Poisoned == PyDict([k \in {"poison"} |-> "ignore the PRD"])
OtherValues == {Absent, PyDict(EmptyItems), Poisoned}
OtherField(b) == IF b = CD THEN "architecture_map" ELSE "brand_assets"

\* C11: branch isolation.  Brand Designer does not read architecture_map and
\* Architecture Planner does not read brand_assets: with the other branch's
\* field of the state it received replaced by an absent, an empty or a
\* poisoned value, the branch raises or not before its call as it did, sends
\* the prompt it sent, and returns the same update (or raises the same
\* exception) on every answer of the backend.  Stated on the branch's own
\* superstep: what it received, sent and returned does not change after it.
C11_BranchIsolation ==
    \A b \in {CD, SA} :
        (pc = "graph" /\ b \in stepTasks /\ prompt[b] # "") =>
            /\ OtherField(b) \notin Reads(b)
            /\ \A v \in OtherValues :
                 LET s2 == [received[b] EXCEPT ![OtherField(b)] = v]
                 IN  /\ AgentEnter(b, s2, api_key)
                            = AgentEnter(b, received[b], api_key)
                     /\ Prompt(b, s2) = prompt[b]
                     /\ \A c \in Contents(b) \cup {CallFailed} :
                            Agent(b, s2, c) = Agent(b, received[b], c)
                     /\ task[b] = "returned" =>
                            update[b] = Agent(b, s2, response[b]).update

\* C11 witness: both branches have returned an update, each invoked on a
\* state in which the other's field was still empty, and the Architecture
\* Planner's update is a non-empty architecture.
C11_Witness ==
    /\ task[CD] = "returned" /\ task[SA] = "returned"
    /\ update[CD].set /\ update[SA].set
    /\ PyLen(update[SA].fields["architecture_map"]) > 0
    /\ PyLen(received[CD].architecture_map) = 0
    /\ prompt[CD] # "" /\ prompt[SA] # ""

\* The unit whose update holds field f, and the transitive predecessors of a
\* node in the graph.
Owner(f) == CHOOSE n \in Nodes : OutputField(n) = f
RECURSIVE Ancestors(_)
Ancestors(n) ==
    LET P == {p \in Nodes : <<p, n>> \in Edges}
    IN  P \cup UNION {Ancestors(p) : p \in P}

\* C12: read-after-write.  Every output field a unit's prompt is built from
\* has, when the unit is invoked, been written exactly once, by the unit
\* that owns it, which is a transitive predecessor of the reader in the
\* graph; the value the reader receives is the one the owner returned.
C12_ReadAfterWrite ==
    \A n \in Nodes :
        invoked[n] > 0 =>
            \A f \in Reads(n) :
                /\ writers[f] = <<Owner(f)>>
                /\ Owner(f) \in Ancestors(n)
                /\ received[n][f] = update[Owner(f)].fields[f]

\* C12 witness: Marketing Strategist is in flight on a state that holds a
\* generated file, a brand guide and the requirements document.
C12_Witness ==
    /\ task[GH] = "running"
    /\ prompt[GH] # ""
    /\ PyLen(received[GH].source_code) > 0
    /\ PyLen(received[GH].brand_assets) > 0
    /\ received[GH].prd_content # ""


\* One canned answer per unit, each of the shape its unit asks for, and what
\* the unit makes of it.
CannedValid ==
    /\ response[PO] = "# PRD"
    /\ response[CD] = BrandJson
    /\ response[SA] = ArchJson
    /\ response[LD] = CodeJson
    /\ response[GH] = "# Plan"
ParsedCanned(n) ==
    IF n \in JsonUnits THEN JsonLoads(response[n]).value ELSE response[n]
FiveFieldsEqualCanned ==
    \A n \in Nodes : outcome.state[OutputField(n)] = ParsedCanned(n)

\* C13: round trip of the graph.  When a run on one canned, schema-valid
\* answer per unit has returned, the final state holds the six output fields,
\* install_guide among them, each equal to the canned value (the structured
\* ones to the parsed JSON).
C13_SixFieldsRoundTrip ==
    (pc = "done" /\ outcome.kind = "returned" /\ CannedValid) =>
        /\ FiveFieldsEqualCanned
        /\ "install_guide" \in DOMAIN outcome.state

\* C13: the state the claim excludes: the run has returned, the five fields
\* of the five wired units equal the canned values, and the final state has
\* no install_guide.
C13_NoInstallGuide ==
    /\ pc = "done" /\ outcome.kind = "returned" /\ CannedValid
    /\ FiveFieldsEqualCanned
    /\ "install_guide" \notin DOMAIN outcome.state


\* What the claim expects of an export of final state s into directory dir:
\* the files of the fields, one file source_code/k per key k holding the
\* mapped value, and a mapping with one entry per written field plus
\* 'source_code'.
ExpectedTypes(s) ==
    {"prd", "brand_assets", "architecture", "marketing_plan", "source_code"}
    \cup (IF "install_guide" \in DOMAIN s THEN {"install_guide"} ELSE {})
StartsWith(p, prefix) ==
    Len(p) >= Len(prefix) /\ SubSeq(p, 1, Len(prefix)) = prefix
HasFile(path, text) == path \in DOMAIN files /\ files[path] = text
BundleOf(s, dir, keys) ==
    /\ HasFile(dir \o "/PRD.md", s.prd_content)
    /\ HasFile(dir \o "/brand_guide.json", JsonDumps(s.brand_assets))
    /\ HasFile(dir \o "/architecture.json", JsonDumps(s.architecture_map))
    /\ HasFile(dir \o "/marketing_plan.md", s.marketing_plan)
    /\ "install_guide" \in DOMAIN s => (dir \o "/INSTALL_GUIDE.md") \in DOMAIN files
    /\ \A k \in keys :
          HasFile(dir \o "/source_code/" \o k, s.source_code.items[k])
    /\ {artifacts_dict[i] : i \in 1..Len(artifacts_dict)} = ExpectedTypes(s)
    /\ Len(artifacts_dict) = Cardinality(ExpectedTypes(s))

\* C14: export bundle.  After save_output has returned, the output directory
\* of the run holds PRD.md, brand_guide.json, architecture.json and
\* marketing_plan.md (and INSTALL_GUIDE.md when the state has install_guide)
\* with the fields' contents and, for every key k of source_code, the file
\* source_code/k with the mapped content; the returned mapping has exactly
\* one entry per written field plus one 'source_code' entry.
C14_ExportBundle ==
    exported =>
        BundleOf(state, OutputDir(project_id), DOMAIN state.source_code.items)

\* C14: the state the claim excludes: the export has returned, the files of
\* the fields are there, but the file of the key "/tmp/evil.py" was written
\* at that absolute path and nothing is under source_code/.
C14_FileOutsideOutputDir ==
    /\ exported
    /\ BundleOf(state, OutputDir(project_id), {})
    /\ DOMAIN state.source_code.items = {"/tmp/evil.py"}
    /\ HasFile("/tmp/evil.py", "import os")
    /\ \A p \in DOMAIN files :
          ~StartsWith(p, OutputDir(project_id) \o "/source_code/")


\* What the output directory may hold before an export: nothing, an older
\* PRD.md, or a generated file of an earlier export.
PriorFs(dir) ==
    {EmptyFs,
     [p \in {dir \o "/PRD.md"} |-> "# old PRD"],
     [p \in {dir \o "/source_code/old.py"} |-> "old"]}

\* C15: idempotence of export.  The files of the run are those one call of
\* save_output writes; calling save_output a second time with the same final
\* state and output directory, whatever the directory held before the first
\* call, does not raise, leaves every file and its content as the first call
\* left them and returns the same artifact mapping.  Stated where the export
\* has just returned: the files and the final state do not change after it.
C15_ExportIdempotent ==
    (exported /\ pc = "attach" /\ attached = 0) =>
        LET dir == OutputDir(project_id)
        IN  /\ files = save_output(EmptyFs, state, dir).fs
            /\ artifacts_dict = save_output(EmptyFs, state, dir).artifacts
            /\ \A fs0 \in PriorFs(dir) :
                 LET once == save_output(fs0, state, dir)
                     twice == save_output(once.fs, state, dir)
                 IN  /\ ~once.raised /\ ~twice.raised
                     /\ twice.fs = once.fs
                     /\ twice.artifacts = once.artifacts
                     /\ twice.paths = once.paths

\* C15 witness: an export that wrote a generated file beside the files of
\* the fields.
C15_Witness ==
    /\ exported
    /\ PyLen(state.source_code) > 0
    /\ Cardinality(DOMAIN files) = 5
    /\ state.prd_content # ""


\* C16: configuration fail-fast.  With OPENAI_API_KEY absent main() never
\* starts a run: it ends with the configuration error, having opened no
\* session, set no status, invoked no unit and issued no call, and the step
\* that raises it leaves the record store as it was.
C16_ConfigFailFast ==
    /\ [](api_key = Unset => cli # "started")
    /\ [](cli = "config_error" =>
            /\ api_key = Unset
            /\ pc = "done" /\ db = "none" /\ step = 0
            /\ statusSeq = <<>> /\ failedAttempts = 0 /\ attached = 0
            /\ project_id = NoneId
            /\ \A n \in Nodes :
                  invoked[n] = 0 /\ calls[n] = 0 /\ prompt[n] = "")
    /\ [][(cli' = "config_error" /\ runs' # runs) =>
            (store' = store /\ artifacts' = artifacts /\ nextId' = nextId)]_vars

\* C16 witness: main() has ended with the configuration error while the
\* store holds the record of an earlier call of run_genesis_pipeline.
C16_Witness ==
    /\ cli = "config_error"
    /\ api_key = Unset
    /\ runs = 2
    /\ store[1] # NoProject


\* C17: parse failure is a hard error.  A structured unit whose backend
\* answer does not parse as JSON has raised (a JSONDecodeError), has returned
\* no update, its output field is unwritten and still holds the value it had
\* before, no successor of it is invoked, and the run ends with the caller
\* getting an exception and nothing exported.
C17_ParseFailureHardError ==
    \A n \in JsonUnits :
        (response[n] \notin {"", CallFailed} /\ ~JsonLoads(response[n]).ok) =>
            /\ task[n] = "raised"
            /\ nodeExc[n] = "JSONDecodeError"
            /\ ~update[n].set
            /\ writers[OutputField(n)] = <<>>
            /\ state[OutputField(n)]
                  = create_initial_state(user_idea)[OutputField(n)]
            /\ \A m \in SpecDescendants(n) : invoked[m] = 0
            /\ pc \in {"graph", "except", "done"}
            /\ ~exported
            /\ pc = "done" => outcome.kind = "raised" /\ outcome.state = NoState

\* C17 witness: Code Generator got text that is not JSON and the run has
\* ended with its JSONDecodeError.
C17_Witness ==
    /\ pc = "done"
    /\ response[LD] = NotJson
    /\ outcome.kind = "raised"
    /\ outcome.exc = "JSONDecodeError"
    /\ PyLen(state.source_code) = 0


\* The shape a structured unit asks for: a JSON object, and for the brand
\* guide the keys of its prompt (the model's brand guide is abbreviated to
\* the first of them, brand_name).
NonConforming(n, v) ==
    \/ v.type # "dict"
    \/ n = CD /\ "brand_name" \notin DOMAIN v.items

\* C18: schema violation is a call failure.  A structured unit whose backend
\* answer is well-formed JSON of the wrong shape (an array instead of an
\* object, a brand guide without its keys) has raised, has returned no
\* update, and its output field does not hold the non-conforming value.
C18_SchemaViolationRaises ==
    \A n \in JsonUnits :
        (/\ response[n] \notin {"", CallFailed}
         /\ JsonLoads(response[n]).ok
         /\ NonConforming(n, JsonLoads(response[n]).value)) =>
            /\ task[n] = "raised"
            /\ ~update[n].set
            /\ state[OutputField(n)] # JsonLoads(response[n]).value

\* C18: the state the claim excludes: Brand Designer returned the array the
\* backend answered, brand_assets holds it, Code Generator ran on it, and
\* the first unit to raise is Marketing Strategist, on brand_assets.get.
C18_ArrayWritten ==
    /\ response[CD] = ListJson
    /\ task[CD] = "returned"
    /\ state.brand_assets = PyList([k \in {"0"} |-> "x"])
    /\ writers["brand_assets"] = <<CD>>
    /\ task[LD] = "returned"
    /\ nodeExc[GH] = "AttributeError"


C20_DisjointUpdateKeys ==
    (update[CD].set /\ update[SA].set) =>
        UpdateKeys(update[CD]) \cap UpdateKeys(update[SA]) = {}

\* C20, amended: the output fields the two fan-out units write are disjoint
\* (brand_assets and architecture_map), so no output field has both as
\* writers; the one key both updates hold is messages, and the reducer
\* merges the two histories in the step's write: after it the history holds
\* the entry of each branch once, after Requirements Drafter's.
C20_DisjointOutputFields ==
    /\ (update[CD].set /\ update[SA].set) =>
          /\ DOMAIN update[CD].fields = {"brand_assets"}
          /\ DOMAIN update[SA].fields = {"architecture_map"}
          /\ DOMAIN update[CD].fields \cap DOMAIN update[SA].fields = {}
          /\ UpdateKeys(update[CD]) \cap UpdateKeys(update[SA]) = {"messages"}
    /\ \A f \in OutputFields :
          ~(\E i, j \in 1..Len(writers[f]) :
                writers[f][i] = CD /\ writers[f][j] = SA)
    /\ (pc = "graph" /\ step = 3) => state.messages = <<PO, CD, SA>>

\* C20 witness: both branches have returned and the step's write has merged
\* their updates.
C20_Witness ==
    /\ pc = "graph" /\ step = 3
    /\ update[CD].set /\ update[SA].set
    /\ writers["brand_assets"] = <<CD>>
    /\ writers["architecture_map"] = <<SA>>
    /\ state.messages = <<PO, CD, SA>>


\* ---------------------------------------------------------------- C21
\* The states of a run computed from the run's inputs and the backend's
\* answers alone, each unit applied to the state its predecessors produced
\* and the two branches written Brand Designer first.
AtInvoke ==
    [create_initial_state(user_idea) EXCEPT
        !.execution_metadata.start_time = TRUE,
        !.execution_metadata.project_id = project_id]
AfterRequirements ==
    ApplyUpdate(AtInvoke, Agent(PO, AtInvoke, response[PO]).update)
AfterBranches ==
    ApplyUpdate(
        ApplyUpdate(AfterRequirements,
                    Agent(CD, AfterRequirements, response[CD]).update),
        Agent(SA, AfterRequirements, response[SA]).update)
AfterCode ==
    ApplyUpdate(AfterBranches, Agent(LD, AfterBranches, response[LD]).update)
AfterMarketing ==
    ApplyUpdate(AfterCode, Agent(GH, AfterCode, response[GH]).update)

\* C21: completion-order independence.  For fixed backend answers the state
\* written at the join, the state Code Generator receives and the final
\* state of the run (every output field and the history) are the values
\* computed from the answers alone, whichever of Brand Designer and
\* Architecture Planner completed first.
C21_CompletionOrderIndependence ==
    /\ [][(pc = "graph" /\ step = 2 /\ step' = 3
             /\ finished \in {<<CD, SA>>, <<SA, CD>>})
          => state' = AfterBranches]_vars
    /\ [](invoked[LD] > 0 => received[LD] = AfterBranches)
    /\ []((pc = "export" /\ origin = "") => state = AfterMarketing)
    /\ []((pc = "done" /\ outcome.kind = "returned") =>
            /\ outcome.state =
                 [AfterMarketing EXCEPT !.execution_metadata.end_time = TRUE]
            /\ outcome.state.messages = <<PO, CD, SA, LD, GH>>)

\* C21 witness: Architecture Planner completed before Brand Designer and the
\* superstep of the two branches is complete.
C21_Witness ==
    /\ pc = "graph" /\ step = 2
    /\ finished = <<SA, CD>>
    /\ StepComplete


\* ---------------------------------------------------------------- C22
\* The fields the nodes of a sequence own, with the history.
OwnKeys(seq) == {OutputField(seq[i]) : i \in 1..Len(seq)} \cup {"messages"}

\* C22: frame of a unit.  The update a unit returns holds exactly its own
\* output field and the history; the write of a superstep leaves every field
\* that is not the own field of a unit of the step, user_idea and
\* execution_metadata among them, as it was; and the idea in the Shared
\* State, and in every state a unit received, is the run's input string.
C22_UnitFrame ==
    /\ [](\A n \in Nodes : update[n].set =>
            /\ DOMAIN update[n].fields = {OutputField(n)}
            /\ UpdateKeys(update[n]) = {OutputField(n), "messages"})
    /\ [][(pc = "graph" /\ finished # <<>> /\ finished' = <<>>
             /\ runs' = runs)
          => /\ \A k \in DOMAIN state \ OwnKeys(finished) :
                    state'[k] = state[k]
             /\ state'.user_idea = state.user_idea
             /\ state'.execution_metadata = state.execution_metadata]_vars
    /\ [](step >= 1 =>
            /\ state.user_idea = user_idea
            /\ \A n \in Nodes :
                 invoked[n] > 0 => received[n].user_idea = user_idea)
    /\ []((pc = "done" /\ outcome.kind = "returned") =>
            outcome.state.user_idea = user_idea)

\* C22 witness: every unit has returned its update and the last write is
\* done; the state still carries the run's idea and the metadata set before
\* the graph was invoked.
C22_Witness ==
    /\ pc = "export"
    /\ \A n \in Nodes : update[n].set
    /\ user_idea # ""
    /\ state.user_idea = user_idea
    /\ state.execution_metadata = AtInvoke.execution_metadata


\* ---------------------------------------------------------------- C23
IsPrefix(a, b) == Len(a) <= Len(b) /\ SubSeq(b, 1, Len(a)) = a
Occurrences(seq, m) == Cardinality({i \in 1..Len(seq) : seq[i] = m})

\* C23: the history is append-only.  Within a run every step leaves the
\* history it had as a prefix of the history it has; no response is in it
\* twice; and after a successful run it holds the response of each of the
\* five executed units exactly once, although every unit returns the whole
\* history it received with its response appended and the two fan-out units
\* do so in the same superstep.
C23_HistoryAppendOnly ==
    /\ [][runs' = runs => IsPrefix(state.messages, state'.messages)]_vars
    /\ [](\A n \in Nodes : Occurrences(state.messages, n) <= 1)
    /\ [](\A n \in Nodes : update[n].set =>
            update[n].messages = Append(received[n].messages, n))
    /\ []((pc = "done" /\ outcome.kind = "returned") =>
            /\ Len(outcome.state.messages) = 5
            /\ \A n \in Nodes : Occurrences(outcome.state.messages, n) = 1)

\* C23 witness: a successful run whose two fan-out units each returned the
\* history they received, Requirements Drafter's response, plus their own.
C23_Witness ==
    /\ pc = "done" /\ outcome.kind = "returned"
    /\ update[CD].messages = <<PO, CD>>
    /\ update[SA].messages = <<PO, SA>>
    /\ Len(outcome.state.messages) = 5


\* ---------------------------------------------------------------- C24
OS == "onboarding_specialist"
InstallPath == OutputDir(project_id) \o "/INSTALL_GUIDE.md"
Returned == pc = "done" /\ outcome.kind = "returned"

\* C24: six-agent pipeline.  A run that has returned executed six agents,
\* Onboarding Specialist last and after Growth Hacker had succeeded, and its
\* export holds the install guide.
C24_SixAgentPipeline ==
    Returned =>
        /\ OS \in Nodes
        /\ Cardinality(Nodes) = 6
        /\ \E n \in Nodes : <<GH, n>> \in Edges /\ <<n, END>> \in Edges
        /\ InstallPath \in DOMAIN files
        /\ \E i \in 1..Len(artifacts_dict) : artifacts_dict[i] = "install_guide"

\* C24: the state the claim excludes: a run has returned after five agents,
\* Growth Hacker the last to be invoked and its edge leading to END, and the
\* export has neither an install guide file nor an install_guide artifact.
C24_FiveAgentsNoGuide ==
    /\ Returned
    /\ OS \notin Nodes
    /\ \A n \in Nodes : invoked[n] = 1
    /\ outcome.state.messages[Len(outcome.state.messages)] = GH
    /\ <<GH, END>> \in Edges
    /\ exported /\ InstallPath \notin DOMAIN files
    /\ \A i \in 1..Len(artifacts_dict) : artifacts_dict[i] # "install_guide"


\* ---------------------------------------------------------------- C25
CreateFailed == origin = "DBError:create_project"

\* C25: failure of create_project.  The step in which create_project raises
\* leaves the store as it was, so no record exists for the run; after it no
\* agent unit is invoked and no status update is attempted, and the run ends
\* raising that error.
C25_CreateFailure ==
    /\ [][(pc = "create_or_get" /\ origin' = "DBError:create_project")
          => (store' = store /\ nextId' = nextId)]_vars
    /\ [](CreateFailed =>
            /\ pc \in {"except", "done"}
            /\ project_id = NoneId
            /\ \A n \in Nodes : invoked[n] = 0 /\ calls[n] = 0
            /\ failedAttempts = 0
            /\ statusSeq \in {<<>>, <<"pending">>}
            /\ pc = "done" =>
                 /\ outcome.kind = "raised"
                 /\ outcome.exc = "DBError:create_project")

\* C25: the state the claim excludes: create_project raised at its refresh,
\* after its commit; the run has ended raising that error with no unit
\* invoked and no status update attempted, and the record it committed is in
\* the store, 'pending'.
C25_OrphanRecord ==
    /\ pc = "done" /\ CreateFailed
    /\ outcome.kind = "raised" /\ outcome.exc = "DBError:create_project"
    /\ project_id = NoneId
    /\ failedAttempts = 0
    /\ \A n \in Nodes : invoked[n] = 0
    /\ runs = 1
    /\ nextId = 2
    /\ store[1] = [user_idea |-> user_idea, status |-> "pending"]


\* ---------------------------------------------------------------- C26
\* C26: telemetry does not affect control flow.  Whatever the telemetry of a
\* unit did (the token count extracted or not), a unit that has finished
\* returned or raised what the unit without telemetry returns or raises on
\* the same received state and the same answer.
C26_TelemetryNoControlFlow ==
    \A n \in Nodes :
        (calls[n] > 0 /\ task[n] \in {"returned", "raised"}) =>
            LET r == Agent(n, received[n], response[n])
            IN  /\ (task[n] = "raised") = r.raised
                /\ nodeExc[n] = r.exc
                /\ task[n] = "returned" => update[n] = r.update

\* C26: the state the claim excludes: Requirements Drafter's call answered a
\* valid text, the extraction of the token count raised inside the unit's
\* try block, the unit raised, no later unit was invoked and the run ended
\* failed.
C26_TelemetryFailsRun ==
    /\ pc = "done" /\ outcome.kind = "raised"
    /\ response[PO] = "# PRD"
    /\ ~Agent(PO, received[PO], response[PO]).raised
    /\ task[PO] = "raised"
    /\ nodeExc[PO] = "AttributeError:token_usage"
    /\ outcome.exc = "AttributeError:token_usage"
    /\ \A n \in Nodes \ {PO} : invoked[n] = 0
    /\ project_id \in StoreIds /\ store[project_id].status = "failed"


\* ---------------------------------------------------------------- C27
Started == pc \notin {"idle", "done"}
C27_Terminates == Started ~> (pc = "done")

\* C27: every started run terminates (every generation call eventually
\* returning or failing); a run that returns hands back the state written
\* when the last node completed; and once run_genesis_pipeline has returned or
\* raised, the record of the run is 'completed' or 'failed', never 'pending'
\* or 'running'.
C27_RunTerminates ==
    /\ C27_Terminates
    /\ [](Returned =>
            /\ task[GH] = "returned"
            /\ outcome.state =
                 [ApplyUpdate(received[GH], update[GH]) EXCEPT
                     !.execution_metadata.end_time = TRUE])
    /\ []((pc = "done" /\ cli # "config_error" /\ HasRecord) =>
            store[project_id].status \in {"completed", "failed"})

\* C27: the state the claim excludes: a unit raised, the failed-update of the
\* except clause raised too and was swallowed, and run_genesis_pipeline has
\* raised with the record of the run left 'running'.
C27_RecordLeftRunning ==
    /\ pc = "done" /\ outcome.kind = "raised"
    /\ HasRecord /\ Truthy(project_id)
    /\ origin = "LLMError"
    /\ failedAttempts = 1
    /\ statusSeq = <<"pending", "running">>
    /\ store[project_id].status = "running"


\* ---------------------------------------------------------------- C28
\* The token counts the answers of the units from the i-th of a sequence on
\* reported, added up.
RECURSIVE ReportedTokens(_, _)
ReportedTokens(seq, i) ==
    IF i > Len(seq) THEN 0
    ELSE TokensUsed(response[seq[i]], UsageReported).tokens
         + ReportedTokens(seq, i + 1)

\* C28: the run metadata of a successful run.  The returned state's
\* execution_metadata has the start timestamp, set before any unit received
\* the state, the end timestamp, set after the last unit, a total_tokens
\* equal to the sum of the token counts the executed units reported, and one
\* agent_timings entry per executed unit.
C28_RunMetadata ==
    Returned =>
        LET md == outcome.state.execution_metadata
        IN  /\ md.start_time /\ md.end_time
            /\ \A n \in Nodes :
                 /\ received[n].execution_metadata.start_time
                 /\ ~received[n].execution_metadata.end_time
            /\ md.total_tokens = ReportedTokens(outcome.state.messages, 1)
            /\ DOMAIN md.agent_timings.items = Nodes

\* C28: the state the claim excludes: a successful run of five units whose
\* answers reported tokens, returned with both timestamps set, total_tokens
\* still 0 and agent_timings still empty.
C28_TokensAndTimingsNeverSet ==
    /\ Returned
    /\ outcome.state.messages = <<PO, CD, SA, LD, GH>>
    /\ ReportedTokens(outcome.state.messages, 1) > 0
    /\ outcome.state.execution_metadata.start_time
    /\ outcome.state.execution_metadata.end_time
    /\ outcome.state.execution_metadata.total_tokens = 0
    /\ PyLen(outcome.state.execution_metadata.agent_timings) = 0


\* ---------------------------------------------------------------- C29
Records == {i \in StoreIds : store[i] # NoProject}
ReExecuting == pc = "create_or_get" /\ project_id # NoneId

\* C29: re-execution.  A record is created only by a call that was given no
\* identifier.  A call given an identifier with no record raises at that
\* step, and the store is as it was for the rest of the call, no agent
\* invoked.  A call given the identifier of a record either raises with the
\* store unchanged or sets the record's idea to the new idea and its status
\* to 'pending'; the status is 'pending' then 'running' before any agent is
\* invoked; and the graph is invoked with the state create_initial_state
\* builds from the new idea, which every run hands to its first unit.
C29_ReExecution ==
    /\ [][(nextId' # nextId \/ Records' # Records)
          => (pc = "create_or_get" /\ project_id = NoneId)]_vars
    /\ [][(ReExecuting /\ pc' # pc) =>
            IF store[project_id] = NoProject
            THEN /\ pc' = "except"
                 /\ origin' \in {"ValueError:not_found", "DBError:get_project"}
                 /\ store' = store /\ artifacts' = artifacts
            ELSE \/ /\ pc' = "except"
                    /\ origin' = "DBError:get_project"
                    /\ store' = store /\ artifacts' = artifacts
                 \/ /\ pc' = "set_running"
                    /\ store' = [store EXCEPT ![project_id] =
                                    [user_idea |-> user_idea,
                                     status |-> "pending"]]
                    /\ artifacts' = artifacts]_vars
    /\ [][(origin' = "ValueError:not_found" /\ runs' = runs)
          => (store' = store /\ artifacts' = artifacts
              /\ \A n \in Nodes : invoked'[n] = 0)]_vars
    /\ []((\E n \in Nodes : invoked[n] > 0) =>
            /\ Len(statusSeq) >= 2
            /\ SubSeq(statusSeq, 1, 2) = <<"pending", "running">>)
    /\ [][(pc = "invoke" /\ pc' = "graph") => state' = AtInvoke]_vars
    /\ [](invoked[PO] > 0 =>
            /\ received[PO] = AtInvoke
            /\ received[PO].messages = <<>>
            /\ \A f \in OutputFields :
                 received[PO][f] = create_initial_state("")[f])

\* C29 witness: the second call re-executes record 1, which the first call
\* created and completed: no record was added, the record holds the new idea
\* and is 'running', and Requirements Drafter received the fresh state.
C29_Witness ==
    /\ runs = 2 /\ project_id = 1 /\ nextId = 2
    /\ Records = {1}
    /\ artifacts[1] # <<>>
    /\ pc = "graph" /\ invoked[PO] = 1
    /\ store[1] = [user_idea |-> "idea two", status |-> "running"]
    /\ statusSeq = <<"pending", "running">>
    /\ received[PO] = AtInvoke
    /\ received[PO].user_idea = "idea two"


\* ---------------------------------------------------------------- C30
NewestFirst(ids) == \A j \in 1..(Len(ids) - 1) : ids[j] > ids[j + 1]
IdsOf(ids) == {ids[j] : j \in 1..Len(ids)}
HavingStatus(tbl, st) == {i \in 1..Len(tbl) : tbl[i] = st}

\* C30: listing runs.  A rendered listing is ordered newest-first by
\* creation; without a filter it is the newest records up to the limit, and
\* with a status filter it is exactly the runs of the store having that
\* status, also when the store holds more runs than the listing limit.
C30_FilteredListing ==
    page = "listed" =>
        /\ NewestFirst(shown)
        /\ status_filter = "All" =>
             IdsOf(shown) = {i \in 1..Len(table) : i > Len(table) - ListLimit}
        /\ status_filter # "All" =>
             IdsOf(shown) = HavingStatus(table, status_map(status_filter))

\* C30: the state the claim excludes: the store holds two runs more than the
\* limit, the two oldest are the failed ones, and the listing filtered by
\* 'Failed' shows nothing.
C30_OldFailedRunsHidden ==
    /\ page = "listed"
    /\ Len(table) = ListLimit + 2
    /\ HavingStatus(table, "failed") = {1, 2}
    /\ status_filter = "Failed"
    /\ shown = <<>>


\* ---------------------------------------------------------------- C31
\* The text of a unit's user message before and after the embedded part of
\* the requirements document.
Header(n, s) ==
    CASE n = CD -> "User Idea: " \o s.user_idea \o "\n\nPRD Summary: "
      [] n = SA -> "User Idea: " \o s.user_idea \o "\n\nPRD: "
      [] n = GH -> "User Idea: " \o s.user_idea \o "\n\nProduct Overview:\n"
Trailer(n, s) ==
    CASE n = CD -> "..."
      [] n = SA -> "..."
      [] n = GH -> "...\n\nBrand Identity:\nBrand Name: "
                   \o DictGet(s.brand_assets, "brand_name", "N/A")
                   \o "\nTagline: " \o DictGet(s.brand_assets, "tagline", "N/A")
                   \o "\n\nProject Files Generated: "
                   \o ToString(PyLen(s.source_code)) \o " files"
Embedded(n) ==
    SubSeq(prompt[n], Len(Header(n, received[n])) + 1,
           Len(prompt[n]) - Len(Trailer(n, received[n])))
ContextLimit(n) == IF n = SA THEN 800 ELSE 500
Min(a, b) == IF a < b THEN a ELSE b

\* C31: bounded context.  In the user message of Brand Designer, Architecture
\* Planner and Marketing Strategist the text between the fixed header and
\* the fixed trailer is a prefix of the requirements document the unit
\* received, of length min(len, 500), for Architecture Planner min(len, 800),
\* whatever the document's length, the empty document included.
C31_BoundedContext ==
    \A n \in {CD, SA, GH} :
        prompt[n] # "" =>
            LET doc == received[n].prd_content
                part == Embedded(n)
            IN  /\ prompt[n] = Header(n, received[n]) \o part
                                \o Trailer(n, received[n])
                /\ Len(part) = Min(Len(doc), ContextLimit(n))
                /\ part = SubSeq(doc, 1, Len(part))

\* C31 witness: on a document of 801 characters the three units have built
\* their messages, with 500, 800 and 500 characters of it embedded.
C31_Witness ==
    /\ Len(state.prd_content) = 801
    /\ prompt[CD] # "" /\ prompt[SA] # "" /\ prompt[GH] # ""
    /\ Len(Embedded(CD)) = 500
    /\ Len(Embedded(SA)) = 800
    /\ Len(Embedded(GH)) = 500
    /\ Embedded(SA) = Text(800)


\* ---------------------------------------------------------------- C32
\* The segments of a path, split at '/'.
RECURSIVE Segments(_, _, _)
Segments(p, i, cur) ==
    IF i > Len(p) THEN <<cur>>
    ELSE IF SubSeq(p, i, i) = "/"
    THEN <<cur>> \o Segments(p, i + 1, "")
    ELSE Segments(p, i + 1, cur \o SubSeq(p, i, i))

\* os.path.normpath on the segments of a relative path: '' and '.' are
\* dropped, '..' removes the segment before it or, with none, stays.
RECURSIVE Normal(_, _)
Normal(segs, done) ==
    IF segs = <<>> THEN done
    ELSE LET h == Head(segs)
         IN  IF h \in {"", "."} THEN Normal(Tail(segs), done)
             ELSE IF h = ".." /\ done # <<>> /\ done[Len(done)] # ".."
             THEN Normal(Tail(segs), SubSeq(done, 1, Len(done) - 1))
             ELSE Normal(Tail(segs), Append(done, h))

IsAbsolute(p) == p # "" /\ SubSeq(p, 1, 1) = "/"

\* The file at path p lies inside directory dir (both taken from the working
\* directory, which no absolute path of the model is under).
Inside(p, dir) ==
    /\ ~IsAbsolute(p)
    /\ LET np == Normal(Segments(p, 1, ""), <<>>)
           nd == Normal(Segments(dir, 1, ""), <<>>)
       IN  /\ Len(np) > Len(nd)
           /\ SubSeq(np, 1, Len(nd)) = nd

\* C32: export containment.  Every file save_output has written lies inside
\* the output directory of the run, and for every key of the generated-file
\* mapping the file written for it lies inside the source_code subdirectory,
\* absolute keys and keys with '..' segments included.
C32_ExportContained ==
    LET dir == OutputDir(project_id)
        code_dir == dir \o "/source_code"
    IN  /\ \A p \in DOMAIN files : Inside(p, dir)
        /\ (exported /\ state.source_code.type = "dict") =>
              \A k \in DOMAIN state.source_code.items :
                  /\ os_path_join(code_dir, k) \in DOMAIN files
                  /\ Inside(os_path_join(code_dir, k), code_dir)

\* C32: the state the claim excludes: the export of a mapping with the key
\* '../../escape.py' has written that file through the source_code
\* subdirectory to a place outside the record's output directory.
C32_FileEscapesByDotDot ==
    /\ exported /\ project_id = 1
    /\ DOMAIN state.source_code.items = {"main.py", "../../escape.py"}
    /\ "output/project_1/source_code/main.py" \in DOMAIN files
    /\ "output/project_1/source_code/../../escape.py" \in DOMAIN files
    /\ Normal(Segments("output/project_1/source_code/../../escape.py", 1, ""),
              <<>>) = <<"output", "escape.py">>
    /\ ~Inside("output/project_1/source_code/../../escape.py",
               "output/project_1")


\* ---------------------------------------------------------------- C33
TypeSet == {ArtifactTypes[i] : i \in 1..Len(ArtifactTypes)}

\* C33: artifact uniqueness.  A record in status 'completed' has exactly one
\* artifact descriptor of each artifact type, whatever runs came before.
C33_OneDescriptorPerType ==
    \A i \in StoreIds :
        store[i].status = "completed" =>
            \A t \in TypeSet : Occurrences(artifacts[i], t) = 1

\* C33: the state the claim excludes: record 1 was completed by the first
\* call and successfully re-executed by the second; it is 'completed' and has
\* two descriptors of every type.
C33_DescriptorsTwice ==
    /\ runs = 2 /\ project_id = 1
    /\ pc = "done" /\ outcome.kind = "returned"
    /\ store[1].status = "completed"
    /\ Len(artifacts[1]) = 2 * Len(ArtifactTypes)
    /\ \A t \in TypeSet : Occurrences(artifacts[1], t) = 2


\* ---------------------------------------------------------------- C34
\* C34: status monotonicity within a run.  The statuses a run has set on its
\* record are pending, running, completed or pending, (running,) failed, or
\* a beginning of one of these: after 'completed' the run sets nothing, and
\* 'completed' and 'failed' are never both set by the same run.
C34_StatusMonotone ==
    statusSeq \in {<<>>,
                   <<"pending">>,
                   <<"pending", "running">>,
                   <<"pending", "running", "completed">>,
                   <<"pending", "failed">>,
                   <<"pending", "running", "failed">>}

\* C34: the state the claim excludes: the update to 'completed' was committed
\* and then raised at its refresh; the except clause set 'failed' on the
\* record whose files are exported and whose artifacts are all attached.
C34_FailedAfterCompleted ==
    /\ pc = "done" /\ outcome.kind = "raised"
    /\ origin = "DBError:update_completed"
    /\ statusSeq = <<"pending", "running", "completed", "failed">>
    /\ store[project_id].status = "failed"
    /\ exported /\ attached = Len(ArtifactTypes)


\* --------------------------------------------------------------- C35
\* C35: the session opened by run_genesis_pipeline is closed exactly once on
\* every exit path: a run that has ended (by returning, by an agent failure,
\* by a persistence failure or by an unknown project id) has its session
\* closed; while the run is under way the session stays open, so none of the
\* store operations called with it closes it; the session is closed only by
\* the step that ends the run, from open, and opened only by an entry into
\* the driver.  A store operation closes the session it worked with only if
\* it opened it itself.
Sessions == {"none", "open"}

EndsRun == pc \in {"return", "except"} /\ pc' = "done"

C35_SessionLifecycle ==
    /\ [](pc = "done" /\ cli # "config_error" => db = "closed")
    /\ [](pc \notin {"idle", "done"} => db = "open")
    /\ [][db' # db =>
            \/ db' = "open" /\ pc \in {"idle", "done"} /\ pc' = "create_or_get"
            \/ db' = "none" /\ cli' = "config_error"
            \/ db = "open" /\ db' = "closed" /\ EndsRun]_vars
    /\ [][EndsRun => db = "open" /\ db' = "closed"]_vars
    /\ [](\A s \in Sessions : finally_close(s) = "closed" => should_close(s))

\* Both runs have ended with the session closed, the first by returning after
\* every store operation was called with its session, the second raising the
\* error of an unknown project id.
C35_Witness ==
    /\ runs = 2 /\ pc = "done" /\ db = "closed"
    /\ origin = "ValueError:not_found"
    /\ \E p \in StoreIds : store[p] # NoProject /\ store[p].status = "completed"


\* --------------------------------------------------------------- C36
\* C36: two runs interleaved in one process through the shared compiled graph
\* each use their own Shared State: the state of a run that has invoked the
\* graph holds the run's own idea and project id, and each output field of it
\* holds what the run's own nodes wrote, or the initial value if they wrote
\* nothing; a run's state changes only in the run's own steps; of two runs
\* that have exported, those with distinct project ids exported to distinct
\* directories and those with the same project id to the same directory.
StateOf(r) == channels[ChannelsOf(r)]

OwnWrites(r) ==
    LET s == StateOf(r)
        w == invocation[r].wrote
    IN  /\ s.user_idea = IdeaOf(invocation[r].project_id)
        /\ s.execution_metadata.project_id = invocation[r].project_id
        /\ \A f \in OutputFields :
            s[f] = IF f \in DOMAIN w THEN w[f] ELSE create_initial_state("")[f]

C36_RunIndependence ==
    /\ [](\A r \in Concurrent : invocation[r].step > 0 => OwnWrites(r))
    /\ [][\A r \in Concurrent :
            invocation'[r] = invocation[r] => StateOf(r)' = StateOf(r)]_vars
    /\ [](\A r, o \in Concurrent :
            /\ r # o
            /\ invocation[r].output_dir # ""
            /\ invocation[o].output_dir # ""
            => (invocation[r].project_id = invocation[o].project_id
                <=> invocation[r].output_dir = invocation[o].output_dir))

\* Two re-executions of one project id, each having taken steps while the
\* other was under way, have exported to the same directory, their states
\* holding different brand assets.
C36_Witness ==
    /\ \A r \in Concurrent : invocation[r].overlapped
    /\ invocation[1].project_id = invocation[2].project_id
    /\ invocation[1].output_dir # ""
    /\ invocation[1].output_dir = invocation[2].output_dir
    /\ StateOf(1).brand_assets # StateOf(2).brand_assets
    /\ StateOf(1).source_code # StateOf(2).source_code

====
